---- MODULE Spec2Model ----
(***************************************************************************)
(* Delegation Poker: the room page (src/unnamed/part_000) of every client  *)
(* view, run against one shared document store.                            *)
(*                                                                         *)
(* The store holds the room document rooms/{roomId} and the participant    *)
(* documents rooms/{roomId}/participants/{participantId}.  A write is      *)
(* atomic per document, a batch is atomic over its documents.  Each view   *)
(* holds React state (roomData, participants, selectedCard, isSubmitting)  *)
(* that is refreshed only by the two onSnapshot callbacks, which the store *)
(* delivers to each view independently and at any later time.  An async    *)
(* handler is cut at its awaits: the part up to the await, the store's     *)
(* commit of the awaited write, and the continuation are separate steps.   *)
(* A write with no continuation that sets state (handleReveal,             *)
(* handleEndRoom) is one step with its commit.                             *)
(***************************************************************************)
EXTENDS Integers, Sequences, FiniteSets, TLC

\* ---------------------------------------------------------------- bounds
\* Cards a user picks in the room state machine are 1..MaxVote.
MaxVote == 2
\* Commands (card clicks and host commands) the users issue in one run.
MaxCommands == 3

\* ------------------------------------------------------------- constants
\* CARD_VALUES = [1, 2, 3, 4, 5, 6, 7]
MaxCard == 7
CARD_VALUES == 1..MaxCard
\* selectedCard: null
NoCard == 0
\* PRESENCE_CONFIG, in ticks of the clock: one heartbeat per tick, and the
\* threshold three times the heartbeat interval.
HEARTBEAT_INTERVAL_MS == 1
OFFLINE_THRESHOLD_MS == 3

\* The views (browser tabs showing the room page) and whose they are.
hostView == "hv"
guestView == "gv"
\* A second tab of the guest's browser: it shares the guest's localStorage.
\* It is closed unless a specification opens it.
guestTab == "gt"
Views == {hostView, guestView, guestTab}
\* getOrCreateParticipantId(): the identifier in the view's localStorage
participantId(v) == IF v = hostView THEN "H" ELSE "G"
Pids == {participantId(v) : v \in Views}
\* searchParams.get("name")
userName(v) == IF v = hostView THEN "host" ELSE "guest"
Votes == 1..MaxVote

VARIABLES
    room,           \* store: rooms/{roomId}
    parts,          \* store: rooms/{roomId}/participants/{pid}
    hostStore,      \* localStorage dp_host_id_{roomId} of each view ("" = absent)
    mounted,        \* the view's room page is mounted
    roomData,       \* React state: last room snapshot (NullRoom before the first)
    participants,   \* React state: last participants snapshot
    delivered,      \* the documents of the last participants snapshot
    alerts,         \* what the view last told its user: "", "roomNotFound",
                    \* "ended", "voteFailed" (alert), "joinNotFound",
                    \* "createFailed" (entry screen error)
    selectedCard,   \* React state: own card
    isSubmitting,   \* React state: a selectCard write is in flight
    joinPc,         \* checkAndAdd: "start", "create", "refresh", "done";
                    \* handleCreateRoom: "roomWrite", "partWrite", and
                    \* "lateWrite" (room write in flight after its timeout)
    votePc,         \* handleCardSelect: [st: "idle" | "issued" | "acked", card]
    resetPc,        \* handleNextRound: [st: "idle" | "read" | "committed", ids, at]
    cmds,           \* commands issued so far
    \* History variables: they record what happened and steer nothing.
    denied,         \* a host-only handler returned at its host guard
    epoch,          \* reset batches committed so far
    roomEpoch,      \* epoch at the view's last room snapshot
    partsEpoch,     \* epoch at the view's last participants snapshot
    secret,         \* participants whose stored card was never stored while revealed
    viewSecret,     \* the same, for the cards in the view's participants snapshot
    toggle,         \* one participant's successive selectCard(x) calls
    \* The result area, rendered on its own from a list of votes.
    votes,          \* selectedCard of each entry of the participant list
    counts,         \* tallyVotes(participants)
    ranked,         \* the cards sorted by count
    rankMap,        \* value -> rank (0: not set)
    tallyPc,        \* "input", "rendered"
    rejected,       \* history: a selectCard returned at its isSubmitting guard
    \* Presence.
    now,            \* the clock (Date.now() and the server's clock), in ticks
    beatPc,         \* updateOnlineStatus: [st: "idle" | "pending", online]
    beatAt,         \* when the view's heartbeat timer last fired
    snapAt,         \* history: the clock at the view's last participants snapshot
    hidden,         \* document.visibilityState === "hidden", of the view's tab
    storeUp         \* the store accepts the writes it is sent

storeVars == <<room, parts>>
reactVars == <<mounted, roomData, participants, delivered, alerts, selectedCard,
              isSubmitting>>
pcVars == <<joinPc, votePc, resetPc>>
epochVars == <<epoch, roomEpoch, partsEpoch>>
secretVars == <<secret, viewSecret>>
tallyVars == <<votes, counts, ranked, rankMap, tallyPc>>
\* What the room state machine never touches.
presenceVars == <<now, beatPc, beatAt, snapAt>>
\* The surroundings of a client: its tab's visibility and the store's health.
envVars == <<hidden, storeUp>>
aside == <<tallyVars, rejected, presenceVars, envVars>>
history == <<denied, epoch, roomEpoch, partsEpoch, secret, viewSecret, toggle,
             aside>>
roomVars == <<room, parts, hostStore, mounted, roomData, participants,
              delivered, alerts, selectedCard, isSubmitting, joinPc, votePc, resetPc, cmds>>
vars == <<roomVars, history>>

\* ------------------------------------------------------------ documents
\* useState<RoomData | null>(null)
NullRoom == [status |-> "null", hostId |-> "", topic |-> ""]
\* lastSeenAt: null (as a pending serverTimestamp() reads in a snapshot)
NoStamp == -1
\* a participant document that does not exist
AbsentDoc ==
    [exists |-> FALSE, name |-> "", selectedCard |-> NoCard, online |-> FALSE,
     lastSeenAt |-> NoStamp]
\* useState<Participant[]>([])
NoParticipants == [p \in Pids |-> AbsentDoc]
IdleVote == [st |-> "idle", card |-> NoCard]
IdleBeat == [st |-> "idle", online |-> TRUE]
IdleReset == [st |-> "idle", ids |-> {}, at |-> "null"]
NoToggle == [c0 |-> NoCard, x |-> NoCard, n |-> 0]

\* The room document does not exist.
AbsentRoom == [status |-> "absent", hostId |-> "", topic |-> "", endedAt |-> FALSE]

\* handleCreateRoom: the room document a host writes
CreatedRoom(hostId, topic) ==
    [status |-> "voting", hostId |-> hostId, topic |-> topic, endedAt |-> FALSE]

\* handleCreateRoom / checkAndAdd: the participant document written by setDoc
\* (lastSeenAt: serverTimestamp())
NewParticipant(name) ==
    [exists |-> TRUE, name |-> name, selectedCard |-> NoCard, online |-> TRUE,
     lastSeenAt |-> now]

\* ---------------------------------------------------------- derived flags
\* Variant of isHost that skips the comparison with the room's hostId
\* (HostOnlyTransitions must not survive it).
isHostUnchecked(v) == roomData[v] # NullRoom

\* const isHost = roomData ? getHostId(roomId) === roomData.hostId : false
isHost(v) ==
    IF roomData[v] # NullRoom THEN hostStore[v] = roomData[v].hostId ELSE FALSE

\* const isVoting = roomData?.status === "voting"
isVoting(v) == roomData[v].status = "voting"

\* const isRevealed = roomData?.status === "revealed"
isRevealed(v) == roomData[v].status = "revealed"

\* if (!roomData) return <loading/>: the page below it is rendered
Rendered(v) == mounted[v] /\ roomData[v] # NullRoom

\* ----------------------------------------------------------- result area
\* Entries of a participant list the result area is rendered from.
MaxBallots == 3

\* Object.fromEntries(CARD_VALUES.map((v) => [v, 0]))
ZeroCounts == [c \in CARD_VALUES |-> 0]

\* Variant of the loop body that counts every entry, voted or not
\* (TallyCounts must not survive it).
CountAny(acc, card) ==
    LET key == IF card = NoCard THEN 1 ELSE card
    IN  [acc EXCEPT ![key] = @ + 1]

\* if (p.selectedCard != null)
\*     counts[p.selectedCard] = (counts[p.selectedCard] ?? 0) + 1
CountOne(acc, card) ==
    IF card = NoCard THEN acc
    ELSE [k \in DOMAIN acc \cup {card} |->
             IF k = card THEN (IF k \in DOMAIN acc THEN acc[k] ELSE 0) + 1
             ELSE acc[k]]

RECURSIVE TallyLoop(_, _, _)
\* for (const p of participants) ...
TallyLoop(cards, i, acc) ==
    IF i > Len(cards) THEN acc
    ELSE TallyLoop(cards, i + 1, CountOne(acc, cards[i]))

\* const tallyVotes = (participants) => counts
tallyVotes(cards) == TallyLoop(cards, 1, ZeroCounts)

\* [...CARD_VALUES].map((v) => ({ value: v, count: counts[v] ?? 0 }))
Items(cnt) == [i \in 1..MaxCard |-> [value |-> i, count |-> cnt[i]]]

RECURSIVE InsertDesc(_, _, _)
\* One insertion of the stable sort: item goes after every element the
\* comparator (a, b) => b.count - a.count does not put behind it.
InsertDesc(item, sorted, i) ==
    IF i > Len(sorted) \/ sorted[i].count < item.count
    THEN SubSeq(sorted, 1, i - 1) \o <<item>> \o SubSeq(sorted, i, Len(sorted))
    ELSE InsertDesc(item, sorted, i + 1)

RECURSIVE SortDesc(_, _, _)
\* .sort((a, b) => b.count - a.count): Array.prototype.sort is stable
SortDesc(items, i, sorted) ==
    IF i > Len(items) THEN sorted
    ELSE SortDesc(items, i + 1, InsertDesc(items[i], sorted, 1))

\* const ranked = [...CARD_VALUES].map(...).sort(...)
Ranked(cnt) == SortDesc(Items(cnt), 1, <<>>)

\* Variant of the loop body that gives a card the rank of the card before
\* it when their counts are equal (RankPermutation must not survive it).
SetRankByCount(rm, rk, index) ==
    IF index > 1 /\ rk[index - 1].count = rk[index].count
    THEN [rm EXCEPT ![rk[index].value] = rm[rk[index - 1].value]]
    ELSE [rm EXCEPT ![rk[index].value] = index]

\* if (!rankMap.has(item.value)) rankMap.set(item.value, index + 1)
\* (index counts from 1 here, so the rank is index)
SetRank(rm, rk, index) ==
    IF rm[rk[index].value] = 0
    THEN [rm EXCEPT ![rk[index].value] = index]
    ELSE rm

RECURSIVE RankLoop(_, _, _)
\* ranked.forEach((item, index) => ...)
RankLoop(rk, index, rm) ==
    IF index > Len(rk) THEN rm
    ELSE RankLoop(rk, index + 1, SetRank(rm, rk, index))

\* const rankMap = new Map<number, number>()  (0: no entry)
RankMapOf(rk) == RankLoop(rk, 1, [c \in CARD_VALUES |-> 0])

\* Variant of showCrown without the vote count (MedalEligibility must not
\* survive it).
showCrownAnyCount(v) == rankMap[v] # 0 /\ rankMap[v] <= 3

\* const showCrown = voteCount > 0 && rank && rank <= 3
showCrown(v) == counts[v] > 0 /\ rankMap[v] # 0 /\ rankMap[v] <= 3

\* const Crown = ({ rank }) => ...: the medal drawn for a rank, "" for null
Crown(rank) ==
    IF rank = 1 THEN "crown"
    ELSE IF rank = 2 THEN "silver"
    ELSE IF rank = 3 THEN "bronze"
    ELSE ""

\* {showCrown && <Crown rank={rank!} />}
CrownShown(v) == showCrown(v) /\ Crown(rankMap[v]) # ""

\* {showCrown && <div>{rank}位</div>}
RankShown(v) == showCrown(v)

RECURSIVE Lists(_)
\* The participant lists of at most n entries, each with a card or none.
Lists(n) ==
    IF n = 0 THEN {<<>>}
    ELSE LET shorter == Lists(n - 1)
         IN  shorter \cup {Append(l, c) : l \in {m \in shorter : Len(m) = n - 1},
                                          c \in {NoCard} \cup CARD_VALUES}

\* Nothing rendered from a list yet.
InitAside ==
    /\ votes = <<>>
    /\ counts = ZeroCounts
    /\ ranked = <<>>
    /\ rankMap = [c \in CARD_VALUES |-> 0]
    /\ tallyPc = "input"
    /\ rejected = FALSE
    /\ hidden = [v \in Views |-> FALSE]
    /\ storeUp = TRUE
    /\ now = 0
    /\ beatPc = [v \in Views |-> IdleBeat]
    /\ beatAt = [v \in Views |-> 0]
    /\ snapAt = [v \in Views |-> 0]

\* ------------------------------------------------------------------ Init
\* The host has created the room (handleCreateRoom) and has entered it; the
\* guest has just opened the room page.  No snapshot has been delivered yet.
InitRoom ==
    /\ room = CreatedRoom("H", "T")
    /\ parts = [p \in Pids |-> IF p = "H" THEN NewParticipant("host") ELSE AbsentDoc]
    /\ hostStore = [v \in Views |-> IF v = hostView THEN "H" ELSE ""]
    /\ mounted = [v \in Views |-> v # guestTab]
    /\ roomData = [v \in Views |-> NullRoom]
    /\ participants = [v \in Views |-> NoParticipants]
    /\ delivered = [v \in Views |-> NoParticipants]
    /\ alerts = [v \in Views |-> ""]
    /\ selectedCard = [v \in Views |-> NoCard]
    /\ isSubmitting = [v \in Views |-> FALSE]
    /\ joinPc = [v \in Views |-> IF v = guestView THEN "start" ELSE "done"]
    /\ votePc = [v \in Views |-> IdleVote]
    /\ resetPc = [v \in Views |-> IdleReset]
    /\ cmds = 0

InitHistory ==
    /\ denied = FALSE
    /\ epoch = 0
    /\ roomEpoch = [v \in Views |-> 0]
    /\ partsEpoch = [v \in Views |-> 0]
    /\ secret = {}
    /\ viewSecret = [v \in Views |-> {}]
    /\ toggle = NoToggle

Init == InitAside /\ InitRoom /\ InitHistory

\* --------------------------------------------------------- subscriptions
\* onSnapshot(roomRef, ...): the RoomData a snapshot of the stored room carries
RoomSnapshotData ==
    [status |-> room.status, hostId |-> room.hostId, topic |-> room.topic]

\* Leaving the room page unmounts the component: its React state is gone.
Unmounted(v) ==
    /\ mounted' = [mounted EXCEPT ![v] = FALSE]
    /\ roomData' = [roomData EXCEPT ![v] = NullRoom]
    /\ participants' = [participants EXCEPT ![v] = NoParticipants]
    /\ delivered' = [delivered EXCEPT ![v] = NoParticipants]
    /\ selectedCard' = [selectedCard EXCEPT ![v] = NoCard]
    /\ isSubmitting' = [isSubmitting EXCEPT ![v] = FALSE]

\* Variant of RoomNotFound that skips the snapshot.exists() test: the
\* snapshot's data is adopted and the page stays (RoomNotFoundExit must not
\* survive it).
RoomNotFoundAdopted(v) ==
    /\ roomData' = [roomData EXCEPT ![v] = RoomSnapshotData]
    /\ UNCHANGED <<mounted, participants, delivered, alerts, selectedCard,
                   isSubmitting>>

\* if (!snapshot.exists()) { alert("ルームが見つかりませんでした");
\* router.push("/"); return; }
RoomNotFound(v) ==
    /\ Unmounted(v)
    /\ alerts' = [alerts EXCEPT ![v] = "roomNotFound"]

\* The room subscription callback, with the render it causes and the effect
\* on roomData?.status: when the document is absent, RoomNotFound; else
\* setRoomData(data), and when the status is "ended" the effect alerts and
\* router.push("/") leaves the room page.
RoomSnapshot(v) ==
    /\ mounted[v]
    /\ roomData[v] # RoomSnapshotData
    /\ IF room.status = "absent"
       THEN RoomNotFound(v)
       ELSE IF room.status = "ended"
       THEN /\ Unmounted(v)
            /\ alerts' = [alerts EXCEPT ![v] = "ended"]
       ELSE /\ roomData' = [roomData EXCEPT ![v] = RoomSnapshotData]
            /\ UNCHANGED <<mounted, participants, delivered, alerts, selectedCard,
                           isSubmitting>>
    /\ UNCHANGED <<storeVars, hostStore, pcVars, cmds>>

\* The documents a participants snapshot carries to view v: the stored
\* ones, with the view's own pending updateOnlineStatus write applied
\* locally (its serverTimestamp() is not known yet and reads null).
SnapshotDocs(v) ==
    IF beatPc[v].st = "pending" /\ parts[participantId(v)].exists
    THEN [parts EXCEPT ![participantId(v)] =
             [@ EXCEPT !.online = beatPc[v].online, !.lastSeenAt = NoStamp]]
    ELSE parts

\* Variant of isOnline that trusts the stored flag alone
\* (PresenceAtSnapshot and EffectivePresence must not survive it).
isOnlineFlagOnly(d) == d.online

\* let isOnline = online;
\* if (lastSeenAt) { if (now - lastSeenMs > OFFLINE_THRESHOLD_MS) isOnline = false }
\* else if (!online) isOnline = false
isOnline(d) ==
    IF d.lastSeenAt # NoStamp
    THEN IF now - d.lastSeenAt > OFFLINE_THRESHOLD_MS THEN FALSE ELSE d.online
    ELSE IF ~d.online THEN FALSE ELSE d.online

\* snapshot.forEach(...): participantsList built from the documents
ParticipantsList(docs) ==
    [p \in Pids |->
        IF docs[p].exists
        THEN [exists |-> TRUE, name |-> docs[p].name,
              selectedCard |-> docs[p].selectedCard,
              online |-> isOnline(docs[p]),
              lastSeenAt |-> docs[p].lastSeenAt]
        ELSE AbsentDoc]

\* The participants subscription callback, called when the collection has
\* changed: setParticipants(participantsList) and, when the own record is
\* in the list, setSelectedCard(its card).
ParticipantsSnapshot(v) ==
    /\ mounted[v]
    /\ delivered[v] # SnapshotDocs(v)
    /\ delivered' = [delivered EXCEPT ![v] = SnapshotDocs(v)]
    /\ participants' = [participants EXCEPT ![v] = ParticipantsList(SnapshotDocs(v))]
    /\ selectedCard' =
          IF SnapshotDocs(v)[participantId(v)].exists
          THEN [selectedCard EXCEPT ![v] = SnapshotDocs(v)[participantId(v)].selectedCard]
          ELSE selectedCard
    /\ UNCHANGED <<storeVars, hostStore, mounted, roomData, alerts,
                   isSubmitting, pcVars, cmds>>

\* ------------------------------------------------------------------ join
\* checkAndAdd, up to the end of await getDoc: snap.exists() picks the branch
checkAndAddRead(v) ==
    /\ joinPc[v] = "start"
    /\ joinPc' = [joinPc EXCEPT ![v] =
                    IF parts[participantId(v)].exists THEN "refresh" ELSE "create"]
    /\ UNCHANGED <<storeVars, hostStore, reactVars, votePc, resetPc, cmds>>

\* checkAndAdd, the awaited write: setDoc of a fresh record when the read
\* found none, updateDoc {online: true, lastSeenAt} otherwise
checkAndAddWrite(v) ==
    /\ joinPc[v] \in {"create", "refresh"}
    /\ parts' = [parts EXCEPT ![participantId(v)] =
                    IF joinPc[v] = "create"
                    THEN NewParticipant(userName(v))
                    ELSE [@ EXCEPT !.online = TRUE, !.lastSeenAt = now]]
    /\ joinPc' = [joinPc EXCEPT ![v] = "done"]
    /\ UNCHANGED <<room, hostStore, reactVars, votePc, resetPc, cmds>>

\* ------------------------------------------------------------ selectCard
\* Variant of newCard that never clears (ToggleLaw must not survive it).
newCardNoToggle(v, value) == value

\* const newCard = selectedCard === value ? null : value
newCard(v, value) == IF selectedCard[v] = value THEN NoCard ELSE value

\* Variant of the guards without the isSubmitting test (NoViewOverlap must
\* not survive it).
CardSelectGuardNoFlag(v) == isVoting(v)

\* if (!roomId || isSubmitting) return; if (!isVoting) return;
CardSelectGuard(v) == ~isSubmitting[v] /\ isVoting(v)

\* handleCardSelect up to the await: the guards, setIsSubmitting(true) and
\* the updateDoc {selectedCard: newCard} handed to the store
handleCardSelect(v, value) ==
    /\ Rendered(v)
    /\ cmds < MaxCommands
    /\ CardSelectGuard(v)
    /\ cmds' = cmds + 1
    /\ isSubmitting' = [isSubmitting EXCEPT ![v] = TRUE]
    /\ votePc' = [votePc EXCEPT ![v] = [st |-> "issued", card |-> newCard(v, value)]]
    /\ UNCHANGED <<storeVars, hostStore, mounted, roomData, participants, delivered, alerts,
                   selectedCard, joinPc, resetPc>>

\* handleCardSelect invoked while one of its guards returns: nothing happens.
CardSelectRejected(v) ==
    /\ Rendered(v)
    /\ cmds < MaxCommands
    /\ ~CardSelectGuard(v)
    /\ cmds' = cmds + 1
    /\ UNCHANGED <<storeVars, hostStore, reactVars, pcVars>>

\* Variant of CardSelectCommit that writes with setDoc: the document is
\* replaced by the written field (OwnRecordOnly must not survive it).
CardSelectCommitSetDoc(v) ==
    /\ votePc[v].st = "issued"
    /\ parts[participantId(v)].exists
    /\ parts' = [parts EXCEPT ![participantId(v)] =
                    [AbsentDoc EXCEPT !.exists = TRUE, !.selectedCard = votePc[v].card]]
    /\ votePc' = [votePc EXCEPT ![v].st = "acked"]
    /\ UNCHANGED <<room, hostStore, reactVars, joinPc, resetPc, cmds>>

\* The store applies the update to the participant's document (an update of
\* a document that does not exist is rejected: CardSelectFail).
CardSelectCommit(v) ==
    /\ votePc[v].st = "issued"
    /\ parts[participantId(v)].exists
    /\ parts' = [parts EXCEPT ![participantId(v)].selectedCard = votePc[v].card]
    /\ votePc' = [votePc EXCEPT ![v].st = "acked"]
    /\ UNCHANGED <<room, hostStore, reactVars, joinPc, resetPc, cmds>>

\* The continuation after the await: setSelectedCard(newCard), and in the
\* finally block setIsSubmitting(false) (no state is set once unmounted)
CardSelectDone(v) ==
    /\ votePc[v].st = "acked"
    /\ selectedCard' = IF mounted[v]
                       THEN [selectedCard EXCEPT ![v] = votePc[v].card]
                       ELSE selectedCard
    /\ isSubmitting' = [isSubmitting EXCEPT ![v] = FALSE]
    /\ votePc' = [votePc EXCEPT ![v] = IdleVote]
    /\ UNCHANGED <<storeVars, hostStore, mounted, roomData, participants, delivered, alerts,
                   joinPc, resetPc, cmds>>

\* Variant of CardSelectFail with no finally block: the in-flight flag
\* stays set (FailedVoteLeavesState must not survive it).
CardSelectFailStuck(v) ==
    /\ votePc[v].st = "issued"
    /\ alerts' = [alerts EXCEPT ![v] = "voteFailed"]
    /\ votePc' = [votePc EXCEPT ![v] = IdleVote]
    /\ UNCHANGED <<storeVars, hostStore, mounted, roomData, participants, delivered,
                   selectedCard, isSubmitting, joinPc, resetPc, cmds>>

\* The store rejects the update: catch alert("投票の更新に失敗しました"),
\* finally setIsSubmitting(false)
CardSelectFail(v) ==
    /\ votePc[v].st = "issued"
    /\ alerts' = [alerts EXCEPT ![v] = "voteFailed"]
    /\ isSubmitting' = [isSubmitting EXCEPT ![v] = FALSE]
    /\ votePc' = [votePc EXCEPT ![v] = IdleVote]
    /\ UNCHANGED <<storeVars, hostStore, mounted, roomData, participants, delivered,
                   selectedCard, joinPc, resetPc, cmds>>

\* --------------------------------------------------------- host commands
\* {isHost && ( ... {isVoting && <button onClick={handleReveal}>} ... )}
RevealButton(v) == Rendered(v) /\ isHost(v) /\ isVoting(v)

\* {isHost && ( ... {isRevealed && <button onClick={handleNextRound}>} ... )}
NextRoundButton(v) == Rendered(v) /\ isHost(v) /\ isRevealed(v)

\* {isHost && ( ... {isRevealed && <button onClick={handleEndRoom}>} ... )}
EndRoomButton(v) == Rendered(v) /\ isHost(v) /\ isRevealed(v)

\* if (!roomId || !isHost) return;  (handleReveal, handleNextRound, handleEndRoom)
HostGuard(v) == isHost(v)

\* A host-only handler invoked on view v: the command is counted; when the
\* host guard returns, nothing else happens.
Invoked(v) ==
    /\ Rendered(v)
    /\ cmds < MaxCommands
    /\ cmds' = cmds + 1

Returned == UNCHANGED <<storeVars, hostStore, reactVars, pcVars>>

\* handleReveal: updateDoc(roomRef, {status: "revealed"})
handleReveal(v) ==
    /\ Invoked(v)
    /\ IF HostGuard(v)
       THEN /\ room' = [room EXCEPT !.status = "revealed"]
            /\ UNCHANGED <<parts, hostStore, reactVars, pcVars>>
       ELSE Returned

\* Variant of handleEndRoom that writes with setDoc: the document is
\* replaced by the two fields (HostIdFixedUnlessReplaced must not survive
\* it).
handleEndRoomSetDoc(v) ==
    /\ Invoked(v)
    /\ IF HostGuard(v)
       THEN /\ room' = [status |-> "ended", hostId |-> "", topic |-> "",
                        endedAt |-> TRUE]
            /\ UNCHANGED <<parts, hostStore, reactVars, pcVars>>
       ELSE Returned

\* handleEndRoom (confirmed by the user):
\* updateDoc(roomRef, {status: "ended", endedAt: serverTimestamp()})
handleEndRoom(v) ==
    /\ Invoked(v)
    /\ IF HostGuard(v)
       THEN /\ room' = [room EXCEPT !.status = "ended", !.endedAt = TRUE]
            /\ UNCHANGED <<parts, hostStore, reactVars, pcVars>>
       ELSE Returned

\* handleNextRound (confirmed by the user) up to the end of
\* await getDocs(participantsRef): the documents the batch will update
\* (at: the stored status when the handler was invoked)
handleNextRound(v) ==
    /\ Invoked(v)
    /\ IF HostGuard(v)
       THEN /\ resetPc[v].st = "idle"
            /\ resetPc' = [resetPc EXCEPT ![v] =
                             [st |-> "read",
                              ids |-> {p \in Pids : parts[p].exists},
                              at |-> room.status]]
            /\ UNCHANGED <<storeVars, hostStore, reactVars, joinPc, votePc>>
       ELSE Returned

\* Variant of ResetBatch that updates the room document only
\* (AtomicReset must not survive it).
ResetRoomOnly(ids) ==
    /\ room' = [room EXCEPT !.status = "voting"]
    /\ parts' = parts

\* batch.update(roomRef, {status: "voting"}) and, for each document read,
\* batch.update(ref, {selectedCard: null}); batch.commit() applies all at once
ResetBatch(ids) ==
    /\ room' = [room EXCEPT !.status = "voting"]
    /\ parts' = [p \in Pids |->
                    IF p \in ids THEN [parts[p] EXCEPT !.selectedCard = NoCard]
                    ELSE parts[p]]

\* await batch.commit()
NextRoundCommit(v) ==
    /\ resetPc[v].st = "read"
    /\ ResetBatch(resetPc[v].ids)
    /\ resetPc' = [resetPc EXCEPT ![v].st = "committed"]
    /\ UNCHANGED <<hostStore, reactVars, joinPc, votePc, cmds>>

\* The continuation after await batch.commit(): setSelectedCard(null)
NextRoundDone(v) ==
    /\ resetPc[v].st = "committed"
    /\ selectedCard' = IF mounted[v]
                       THEN [selectedCard EXCEPT ![v] = NoCard]
                       ELSE selectedCard
    /\ resetPc' = [resetPc EXCEPT ![v] = IdleReset]
    /\ UNCHANGED <<storeVars, hostStore, mounted, roomData, participants, delivered, alerts,
                   isSubmitting, joinPc, votePc, cmds>>

\* ------------------------------------------------------------------ Spec
\* The steps that no history variable follows.
Quiet ==
    \/ \E v \in Views : checkAndAddRead(v) /\ UNCHANGED history
    \/ \E v \in Views, value \in Votes : handleCardSelect(v, value) /\ UNCHANGED history
    \/ \E v \in Views : CardSelectDone(v) /\ UNCHANGED history
    \/ \E v \in Views : CardSelectFail(v) /\ UNCHANGED history
    \/ \E v \in Views : EndRoomButton(v) /\ handleEndRoom(v) /\ UNCHANGED history
    \/ \E v \in Views : NextRoundButton(v) /\ handleNextRound(v) /\ UNCHANGED history
    \/ \E v \in Views : NextRoundDone(v) /\ UNCHANGED history

\* A view that is not the host has no button: its invocations of the
\* host-only handlers are the ones made past the UI.
PastUI(v) ==
    /\ ~isHost(v)
    /\ \/ handleReveal(v)
       \/ handleEndRoom(v)
       \/ handleNextRound(v)

\* The room state machine.  A host command is a click on its button.
Next ==
    \/ Quiet
    \/ \E v \in Views : RoomSnapshot(v) /\ UNCHANGED history
    \/ \E v \in Views : ParticipantsSnapshot(v) /\ UNCHANGED history
    \/ \E v \in Views : checkAndAddWrite(v) /\ UNCHANGED history
    \/ \E v \in Views : CardSelectCommit(v) /\ UNCHANGED history
    \/ \E v \in Views : RevealButton(v) /\ handleReveal(v) /\ UNCHANGED history
    \/ \E v \in Views : NextRoundCommit(v) /\ UNCHANGED history
    \/ \E v \in Views : PastUI(v) /\ UNCHANGED history

Spec == Init /\ [][Next]_vars

\* The same machine when every room snapshot is eventually delivered.
RoomSnapshotStep(v) == RoomSnapshot(v) /\ UNCHANGED history

SpecEvict == Spec /\ \A v \in Views : WF_vars(RoomSnapshotStep(v))

\* The same machine, recording whether a host-only handler returned at its
\* host guard.
NextHostOnly ==
    \/ Quiet
    \/ \E v \in Views : RoomSnapshot(v) /\ UNCHANGED history
    \/ \E v \in Views : ParticipantsSnapshot(v) /\ UNCHANGED history
    \/ \E v \in Views : checkAndAddWrite(v) /\ UNCHANGED history
    \/ \E v \in Views : CardSelectCommit(v) /\ UNCHANGED history
    \/ \E v \in Views : RevealButton(v) /\ handleReveal(v) /\ UNCHANGED history
    \/ \E v \in Views : NextRoundCommit(v) /\ UNCHANGED history
    \/ \E v \in Views :
          /\ PastUI(v)
          /\ denied' = (room' = room /\ parts' = parts /\ resetPc' = resetPc)
          /\ UNCHANGED <<epochVars, secretVars, toggle, aside>>

SpecHostOnly == Init /\ [][NextHostOnly]_vars

\* The same machine, following which reset each snapshot of a view was
\* taken after: epoch counts the resets that wiped a vote.
WipesVote(ids) == \E p \in ids : parts[p].selectedCard # NoCard

NextViews ==
    \/ Quiet
    \/ \E v \in Views :
          /\ RoomSnapshot(v)
          /\ roomEpoch' = [roomEpoch EXCEPT ![v] = epoch]
          /\ UNCHANGED <<denied, epoch, partsEpoch, secretVars, toggle, aside>>
    \/ \E v \in Views :
          /\ ParticipantsSnapshot(v)
          /\ partsEpoch' = [partsEpoch EXCEPT ![v] = epoch]
          /\ UNCHANGED <<denied, epoch, roomEpoch, secretVars, toggle, aside>>
    \/ \E v \in Views : checkAndAddWrite(v) /\ UNCHANGED history
    \/ \E v \in Views : CardSelectCommit(v) /\ UNCHANGED history
    \/ \E v \in Views : RevealButton(v) /\ handleReveal(v) /\ UNCHANGED history
    \/ \E v \in Views :
          /\ NextRoundCommit(v)
          /\ epoch' = IF WipesVote(resetPc[v].ids) THEN epoch + 1 ELSE epoch
          /\ UNCHANGED <<denied, roomEpoch, partsEpoch, secretVars, toggle, aside>>
    \/ \E v \in Views : PastUI(v) /\ UNCHANGED history

SpecViews == Init /\ [][NextViews]_vars

\* The same machine, following the votes cast while the stored status is
\* voting that the store has never held under status revealed (secret) and
\* the views whose participants snapshot carries such a vote (viewSecret).
NextSecrecy ==
    \/ Quiet
    \/ \E v \in Views :
          /\ RoomSnapshot(v)
          /\ viewSecret' = IF mounted'[v] THEN viewSecret
                           ELSE [viewSecret EXCEPT ![v] = {}]
          /\ UNCHANGED <<denied, epochVars, secret, toggle, aside>>
    \/ \E v \in Views :
          /\ ParticipantsSnapshot(v)
          /\ viewSecret' = [viewSecret EXCEPT ![v] = secret]
          /\ UNCHANGED <<denied, epochVars, secret, toggle, aside>>
    \/ \E v \in Views :
          /\ checkAndAddWrite(v)
          /\ secret' = IF joinPc[v] = "create"
                       THEN secret \ {participantId(v)} ELSE secret
          /\ UNCHANGED <<denied, epochVars, viewSecret, toggle, aside>>
    \/ \E v \in Views :
          /\ CardSelectCommit(v)
          /\ secret' = IF votePc[v].card # NoCard /\ room.status = "voting"
                       THEN secret \cup {participantId(v)}
                       ELSE secret \ {participantId(v)}
          /\ UNCHANGED <<denied, epochVars, viewSecret, toggle, aside>>
    \/ \E v \in Views :
          /\ RevealButton(v) /\ handleReveal(v)
          /\ secret' = {}
          /\ viewSecret' = [w \in Views |-> {}]
          /\ UNCHANGED <<denied, epochVars, toggle, aside>>
    \/ \E v \in Views :
          /\ NextRoundCommit(v)
          /\ secret' = secret \ resetPc[v].ids
          /\ UNCHANGED <<denied, epochVars, viewSecret, toggle, aside>>
    \/ \E v \in Views : PastUI(v) /\ UNCHANGED history

SpecSecrecy == Init /\ [][NextSecrecy]_vars

\* selectCard alone: the guest is in the room, the round is open, its
\* record holds the card c0 and its view is up to date; it selects the
\* value x, at most twice, each time after the previous call has resolved.
InitToggle ==
    \E c0 \in {NoCard} \cup CARD_VALUES, x \in CARD_VALUES :
       /\ InitAside
       /\ room = CreatedRoom("H", "T")
       /\ parts = [p \in Pids |->
                     IF p = "H" THEN NewParticipant("host")
                     ELSE [NewParticipant("guest") EXCEPT !.selectedCard = c0]]
       /\ hostStore = [v \in Views |-> IF v = hostView THEN "H" ELSE ""]
       /\ mounted = [v \in Views |-> v # guestTab]
       /\ roomData = [v \in Views |->
                        IF v = guestView
                        THEN [status |-> "voting", hostId |-> "H", topic |-> "T"]
                        ELSE NullRoom]
       /\ participants = [v \in Views |-> NoParticipants]
       /\ delivered = [v \in Views |-> NoParticipants]
       /\ alerts = [v \in Views |-> ""]
       /\ selectedCard = [v \in Views |-> IF v = guestView THEN c0 ELSE NoCard]
       /\ isSubmitting = [v \in Views |-> FALSE]
       /\ joinPc = [v \in Views |-> "done"]
       /\ votePc = [v \in Views |-> IdleVote]
       /\ resetPc = [v \in Views |-> IdleReset]
       /\ cmds = 0
       /\ denied = FALSE
       /\ epoch = 0
       /\ roomEpoch = [v \in Views |-> 0]
       /\ partsEpoch = [v \in Views |-> 0]
       /\ secret = {}
       /\ viewSecret = [v \in Views |-> {}]
       /\ toggle = [c0 |-> c0, x |-> x, n |-> 0]

NextToggle ==
    \/ /\ toggle.n < 2
       /\ handleCardSelect(guestView, toggle.x)
       /\ UNCHANGED history
    \/ CardSelectCommit(guestView) /\ UNCHANGED history
    \/ /\ CardSelectDone(guestView)
       /\ toggle' = [toggle EXCEPT !.n = @ + 1]
       /\ UNCHANGED <<denied, epochVars, secretVars, aside>>
    \/ CardSelectFail(guestView) /\ UNCHANGED history
    \/ ParticipantsSnapshot(guestView) /\ UNCHANGED history

SpecToggle == InitToggle /\ [][NextToggle]_vars

\* The result area alone: any participant list, rendered once.
InitTally ==
    /\ votes \in Lists(MaxBallots)
    /\ counts = ZeroCounts
    /\ ranked = <<>>
    /\ rankMap = [c \in CARD_VALUES |-> 0]
    /\ tallyPc = "input"
    /\ rejected = FALSE
    /\ hidden = [v \in Views |-> FALSE]
    /\ storeUp = TRUE
    /\ now = 0
    /\ beatPc = [v \in Views |-> IdleBeat]
    /\ beatAt = [v \in Views |-> 0]
    /\ snapAt = [v \in Views |-> 0]
    /\ InitRoom /\ InitHistory

\* One render of the component body: counts, ranked and rankMap
RenderTally ==
    /\ tallyPc = "input"
    /\ counts' = tallyVotes(votes)
    /\ ranked' = Ranked(counts')
    /\ rankMap' = RankMapOf(ranked')
    /\ tallyPc' = "rendered"
    /\ UNCHANGED <<votes, rejected, presenceVars, envVars, roomVars, denied, epochVars,
                   secretVars, toggle>>

NextTally == RenderTally

SpecTally == InitTally /\ [][NextTally]_vars

\* selectCard from two tabs of one browser: the guest has joined and has
\* the room page open twice; both pages are the same participant.  The
\* host's page is closed.
GuestViews == {guestView, guestTab}

InitOverlap ==
    /\ InitAside
    /\ room = CreatedRoom("H", "T")
    /\ parts = [p \in Pids |->
                  IF p = "H" THEN [NewParticipant("host") EXCEPT !.online = FALSE]
                  ELSE NewParticipant("guest")]
    /\ hostStore = [v \in Views |-> IF v = hostView THEN "H" ELSE ""]
    /\ mounted = [v \in Views |-> v \in GuestViews]
    /\ roomData = [v \in Views |-> NullRoom]
    /\ participants = [v \in Views |-> NoParticipants]
    /\ delivered = [v \in Views |-> NoParticipants]
    /\ alerts = [v \in Views |-> ""]
    /\ selectedCard = [v \in Views |-> NoCard]
    /\ isSubmitting = [v \in Views |-> FALSE]
    /\ joinPc = [v \in Views |-> "done"]
    /\ votePc = [v \in Views |-> IdleVote]
    /\ resetPc = [v \in Views |-> IdleReset]
    /\ cmds = 0
    /\ InitHistory

NextOverlap ==
    \/ \E v \in Views : RoomSnapshot(v) /\ UNCHANGED history
    \/ \E v \in Views : ParticipantsSnapshot(v) /\ UNCHANGED history
    \/ \E v \in Views, value \in Votes : handleCardSelect(v, value) /\ UNCHANGED history
    \/ \E v \in Views :
          /\ CardSelectRejected(v)
          /\ rejected' = (rejected \/ isSubmitting[v])
          /\ UNCHANGED <<denied, epochVars, secretVars, toggle, tallyVars,
                         presenceVars, envVars>>
    \/ \E v \in Views : CardSelectCommit(v) /\ UNCHANGED history
    \/ \E v \in Views : CardSelectDone(v) /\ UNCHANGED history
    \/ \E v \in Views : CardSelectFail(v) /\ UNCHANGED history

SpecOverlap == InitOverlap /\ [][NextOverlap]_vars

\* ------------------------------------------------------------- presence
\* Ticks of the clock in one run.
MaxTime == 5

\* updateOnlineStatus(online) up to its await: the updateDoc
\* {online, lastSeenAt: serverTimestamp()} handed to the store
updateOnlineStatus(v, online) ==
    beatPc' = [beatPc EXCEPT ![v] = [st |-> "pending", online |-> online]]

\* Variant of sendHeartbeat whose timer outlives the page: the cleanup's
\* clearInterval is missing (Teardown must not survive it).
sendHeartbeatUncleared(v) ==
    /\ now - beatAt[v] >= HEARTBEAT_INTERVAL_MS
    /\ beatAt' = [beatAt EXCEPT ![v] = now]
    /\ updateOnlineStatus(v, TRUE)
    /\ UNCHANGED <<roomVars, now>>

\* The heartbeat timer of view v fires: sendHeartbeat (the effect's cleanup
\* clears the timer when the page unmounts)
sendHeartbeat(v) ==
    /\ mounted[v]
    /\ now - beatAt[v] >= HEARTBEAT_INTERVAL_MS
    /\ beatAt' = [beatAt EXCEPT ![v] = now]
    /\ updateOnlineStatus(v, TRUE)
    /\ UNCHANGED <<roomVars, now>>

\* Variant of OnlineStatusCommit that writes as setDoc with merge does: a
\* document that does not exist is created with the two fields alone
\* (WellFormedRecords must not survive it).
OnlineStatusCommitMerge(v) ==
    /\ beatPc[v].st = "pending"
    /\ parts' = [parts EXCEPT ![participantId(v)] =
                    [@ EXCEPT !.exists = TRUE, !.online = beatPc[v].online,
                              !.lastSeenAt = now]]
    /\ beatPc' = [beatPc EXCEPT ![v] = IdleBeat]
    /\ UNCHANGED <<room, hostStore, reactVars, pcVars, cmds, now, beatAt>>

\* The store applies the update (the server stamps lastSeenAt); the update
\* of a document that does not exist is rejected and the error logged.
OnlineStatusCommit(v) ==
    /\ beatPc[v].st = "pending"
    /\ parts' = IF parts[participantId(v)].exists
                THEN [parts EXCEPT ![participantId(v)] =
                         [@ EXCEPT !.online = beatPc[v].online, !.lastSeenAt = now]]
                ELSE parts
    /\ beatPc' = [beatPc EXCEPT ![v] = IdleBeat]
    /\ UNCHANGED <<room, hostStore, reactVars, pcVars, cmds, now, beatAt>>

\* The client of view v stops (crash, power loss): no cleanup runs, nothing
\* is written.  A later crash would leave no time to see its effect.
Crash(v) ==
    /\ mounted[v]
    /\ now + OFFLINE_THRESHOLD_MS < MaxTime
    /\ mounted' = [mounted EXCEPT ![v] = FALSE]
    /\ UNCHANGED <<storeVars, hostStore, roomData, participants, delivered, alerts,
                   selectedCard, isSubmitting, pcVars, cmds, now, beatPc, beatAt>>

\* A write still pending when its client stopped never reaches the store.
OnlineStatusLost(v) ==
    /\ ~mounted[v]
    /\ beatPc[v].st = "pending"
    /\ beatPc' = [beatPc EXCEPT ![v] = IdleBeat]
    /\ UNCHANGED <<roomVars, now, beatAt>>

\* The clock advances once every running view has sent the heartbeat that
\* is due and the store has answered the pending writes.
Tick ==
    /\ now < MaxTime
    /\ \A v \in Views : mounted[v] => now - beatAt[v] < HEARTBEAT_INTERVAL_MS
    /\ \A v \in Views : beatPc[v].st = "idle"
    /\ now' = now + 1
    /\ UNCHANGED <<roomVars, beatPc, beatAt>>

\* Host and guest are in the room, the round is open, the guest's second
\* tab is closed; each page has its room snapshot, none its participants yet.
InitPresence ==
    /\ InitAside
    /\ InitHistory
    /\ room = CreatedRoom("H", "T")
    /\ parts = [p \in Pids |-> NewParticipant(IF p = "H" THEN "host" ELSE "guest")]
    /\ hostStore = [v \in Views |-> IF v = hostView THEN "H" ELSE ""]
    /\ mounted = [v \in Views |-> v # guestTab]
    /\ roomData = [v \in Views |->
                     IF v # guestTab
                     THEN [status |-> "voting", hostId |-> "H", topic |-> "T"]
                     ELSE NullRoom]
    /\ participants = [v \in Views |-> NoParticipants]
    /\ delivered = [v \in Views |-> NoParticipants]
    /\ alerts = [v \in Views |-> ""]
    /\ selectedCard = [v \in Views |-> NoCard]
    /\ isSubmitting = [v \in Views |-> FALSE]
    /\ joinPc = [v \in Views |-> "done"]
    /\ votePc = [v \in Views |-> IdleVote]
    /\ resetPc = [v \in Views |-> IdleReset]
    /\ cmds = 0

\* What presence leaves alone.
presenceFrame == <<denied, epochVars, secretVars, toggle, tallyVars, rejected,
                   envVars>>

TickStep == Tick /\ UNCHANGED <<presenceFrame, snapAt>>
HeartbeatStep(v) == sendHeartbeat(v) /\ UNCHANGED <<presenceFrame, snapAt>>
CommitStep(v) == OnlineStatusCommit(v) /\ UNCHANGED <<presenceFrame, snapAt>>
LostStep(v) == OnlineStatusLost(v) /\ UNCHANGED <<presenceFrame, snapAt>>
CrashStep == Crash(guestView) /\ UNCHANGED <<presenceFrame, snapAt>>
SnapshotStep(v) ==
    /\ ParticipantsSnapshot(v)
    /\ snapAt' = [snapAt EXCEPT ![v] = now]
    /\ UNCHANGED <<presenceFrame, now, beatPc, beatAt>>

NextPresence ==
    \/ TickStep
    \/ \E v \in Views : HeartbeatStep(v)
    \/ \E v \in Views : CommitStep(v)
    \/ \E v \in Views : LostStep(v)
    \/ CrashStep
    \/ \E v \in Views : SnapshotStep(v)

SpecPresence == InitPresence /\ [][NextPresence]_vars

\* The store answers, the timers fire and the snapshots are delivered.
FairPresence ==
    /\ WF_vars(TickStep)
    /\ \A v \in Views : WF_vars(HeartbeatStep(v))
    /\ \A v \in Views : WF_vars(CommitStep(v))
    /\ \A v \in Views : WF_vars(LostStep(v))
    /\ \A v \in Views : WF_vars(SnapshotStep(v))

SpecCrash == SpecPresence /\ FairPresence

\* ---------------------------------------------------------- entry screen
\* A view that is not on the room page is on the entry screen.  Its handlers
\* start once the checkAndAdd of a page it left has settled.
OnEntryScreen(v) == ~mounted[v] /\ joinPc[v] = "done"

\* handleJoinRoom: setError(""), await getDoc(rooms/roomId); when the
\* document is absent setError("ルームが見つかりませんでした") and return;
\* otherwise router.push to the room page, whose effects then start.
handleJoinRoom(v) ==
    /\ OnEntryScreen(v)
    /\ IF room.status = "absent"
       THEN /\ alerts' = [alerts EXCEPT ![v] = "joinNotFound"]
            /\ UNCHANGED <<mounted, joinPc>>
       ELSE /\ alerts' = [alerts EXCEPT ![v] = ""]
            /\ mounted' = [mounted EXCEPT ![v] = TRUE]
            /\ joinPc' = [joinPc EXCEPT ![v] = "start"]
    /\ UNCHANGED <<storeVars, hostStore, roomData, participants, delivered,
                   selectedCard, isSubmitting, votePc, resetPc, cmds>>

\* const [topic, setTopic] = useState(""): the theme typed on the entry
\* screen of the view
topic(v) == IF v = hostView THEN "T" ELSE "U"

\* generateRoomId(): the identifier it returns is the model's room only
\* when no document and no pending creation uses it (a creation under any
\* other identifier makes a room the model does not follow).
IdUnused ==
    /\ room.status = "absent"
    /\ \A w \in Views : joinPc[w] # "roomWrite"

\* const [isCreating, setIsCreating] = useState(false): true from
\* setIsCreating(true) to the finally block
isCreating(v) == joinPc[v] \in {"roomWrite", "partWrite"}

\* handleCreateRoom up to its first await: setIsCreating(true), setError("")
\* and the setDoc of the room document handed to the store
handleCreateRoom(v) ==
    /\ OnEntryScreen(v)
    /\ alerts' = [alerts EXCEPT ![v] = ""]
    /\ joinPc' = [joinPc EXCEPT ![v] = "roomWrite"]
    /\ UNCHANGED <<storeVars, hostStore, mounted, roomData, participants,
                   delivered, selectedCard, isSubmitting, votePc, resetPc, cmds>>

\* Variant of CreateRoomCommit that skips setHostId (RoomCreated must not
\* survive it).
CreateRoomCommitNoHostId(v) ==
    /\ joinPc[v] = "roomWrite"
    /\ room' = CreatedRoom(participantId(v), topic(v))
    /\ joinPc' = [joinPc EXCEPT ![v] = "partWrite"]
    /\ UNCHANGED <<parts, hostStore, reactVars, votePc, resetPc, cmds>>

\* The store applies setDoc(rooms/newRoomId, {status: "voting", hostId,
\* topic}), which replaces the document; the handler goes on with
\* setHostId(newRoomId, hostId) and hands the setDoc of the creator's
\* participant record to the store.
CreateRoomCommit(v) ==
    /\ joinPc[v] = "roomWrite"
    /\ room' = CreatedRoom(participantId(v), topic(v))
    /\ hostStore' = [hostStore EXCEPT ![v] = participantId(v)]
    /\ joinPc' = [joinPc EXCEPT ![v] = "partWrite"]
    /\ UNCHANGED <<parts, reactVars, votePc, resetPc, cmds>>

\* catch / finally: setError("ルームの作成に失敗しました") and
\* setIsCreating(false)
CreateRoomFailed(v) ==
    /\ alerts' = [alerts EXCEPT ![v] = "createFailed"]
    /\ joinPc' = [joinPc EXCEPT ![v] = "done"]
    /\ UNCHANGED <<storeVars, hostStore, mounted, roomData, participants,
                   delivered, selectedCard, isSubmitting, votePc, resetPc, cmds>>

\* withTimeout(setDoc(...), 15000, "setDoc rooms"): the timer rejects while
\* the room write has not completed (the write is then taken as lost).
CreateRoomTimeout(v) ==
    /\ joinPc[v] = "roomWrite"
    /\ CreateRoomFailed(v)

\* The store rejects one of the two writes.
CreateRoomReject(v) ==
    /\ isCreating(v)
    /\ CreateRoomFailed(v)

\* The store applies the setDoc of the participant record; the handler goes
\* on with router.push to the room page, where checkAndAdd starts, and with
\* setIsCreating(false).
CreateRoomDone(v) ==
    /\ joinPc[v] = "partWrite"
    /\ parts' = [parts EXCEPT ![participantId(v)] = NewParticipant(userName(v))]
    /\ mounted' = [mounted EXCEPT ![v] = TRUE]
    /\ joinPc' = [joinPc EXCEPT ![v] = "start"]
    /\ UNCHANGED <<room, hostStore, roomData, participants, delivered, alerts,
                   selectedCard, isSubmitting, votePc, resetPc, cmds>>

\* No room has been created under the room id: the host's and the guest's
\* browsers have opened the room page by its URL, the guest's second tab is
\* on the entry screen.
InitNotFound ==
    /\ InitAside
    /\ room = AbsentRoom
    /\ parts = [p \in Pids |-> AbsentDoc]
    /\ hostStore = [v \in Views |-> ""]
    /\ mounted = [v \in Views |-> v # guestTab]
    /\ roomData = [v \in Views |-> NullRoom]
    /\ participants = [v \in Views |-> NoParticipants]
    /\ delivered = [v \in Views |-> NoParticipants]
    /\ alerts = [v \in Views |-> ""]
    /\ selectedCard = [v \in Views |-> NoCard]
    /\ isSubmitting = [v \in Views |-> FALSE]
    /\ joinPc = [v \in Views |-> IF v = guestTab THEN "done" ELSE "start"]
    /\ votePc = [v \in Views |-> IdleVote]
    /\ resetPc = [v \in Views |-> IdleReset]
    /\ cmds = 0
    /\ InitHistory

\* Opening, leaving and entering the room page around a missing room.
NextNotFound ==
    \/ \E v \in Views : RoomSnapshot(v) /\ UNCHANGED history
    \/ \E v \in Views : ParticipantsSnapshot(v) /\ UNCHANGED history
    \/ \E v \in Views : checkAndAddRead(v) /\ UNCHANGED history
    \/ \E v \in Views : checkAndAddWrite(v) /\ UNCHANGED history
    \/ \E v \in Views : handleJoinRoom(v) /\ UNCHANGED history
    \/ \E v \in Views : IdUnused /\ handleCreateRoom(v) /\ UNCHANGED history
    \/ \E v \in Views : CreateRoomCommit(v) /\ UNCHANGED history
    \/ \E v \in Views : CreateRoomTimeout(v) /\ UNCHANGED history
    \/ \E v \in Views : CreateRoomReject(v) /\ UNCHANGED history
    \/ \E v \in Views : CreateRoomDone(v) /\ UNCHANGED history

SpecNotFound == InitNotFound /\ [][NextNotFound]_vars

\* The same machine when the timer of withTimeout fires; no write is
\* assumed to complete.
CreateRoomTimeoutStep(v) == CreateRoomTimeout(v) /\ UNCHANGED history

SpecCreate == SpecNotFound /\ \A v \in Views : WF_vars(CreateRoomTimeoutStep(v))

\* The room state machine with the guest on the entry screen: the host is
\* in the room it has created, and the guest's create-room may generate any
\* identifier, the room's own included.  Every vote is for card 1.
InitCollide ==
    /\ InitAside
    /\ room = CreatedRoom("H", topic(hostView))
    /\ parts = [p \in Pids |-> IF p = "H" THEN NewParticipant("host") ELSE AbsentDoc]
    /\ hostStore = [v \in Views |-> IF v = hostView THEN "H" ELSE ""]
    /\ mounted = [v \in Views |-> v = hostView]
    /\ roomData = [v \in Views |-> NullRoom]
    /\ participants = [v \in Views |-> NoParticipants]
    /\ delivered = [v \in Views |-> NoParticipants]
    /\ alerts = [v \in Views |-> ""]
    /\ selectedCard = [v \in Views |-> NoCard]
    /\ isSubmitting = [v \in Views |-> FALSE]
    /\ joinPc = [v \in Views |-> "done"]
    /\ votePc = [v \in Views |-> IdleVote]
    /\ resetPc = [v \in Views |-> IdleReset]
    /\ cmds = 0
    /\ InitHistory

NextCollide ==
    \/ \E v \in Views : RoomSnapshot(v) /\ UNCHANGED history
    \/ \E v \in Views : ParticipantsSnapshot(v) /\ UNCHANGED history
    \/ \E v \in Views : checkAndAddRead(v) /\ UNCHANGED history
    \/ \E v \in Views : checkAndAddWrite(v) /\ UNCHANGED history
    \/ \E v \in Views : handleCardSelect(v, 1) /\ UNCHANGED history
    \/ \E v \in Views : CardSelectCommit(v) /\ UNCHANGED history
    \/ \E v \in Views : CardSelectDone(v) /\ UNCHANGED history
    \/ \E v \in Views : RevealButton(v) /\ handleReveal(v) /\ UNCHANGED history
    \/ \E v \in Views : NextRoundButton(v) /\ handleNextRound(v) /\ UNCHANGED history
    \/ \E v \in Views : NextRoundCommit(v) /\ UNCHANGED history
    \/ \E v \in Views : NextRoundDone(v) /\ UNCHANGED history
    \/ \E v \in Views : EndRoomButton(v) /\ handleEndRoom(v) /\ UNCHANGED history
    \/ handleCreateRoom(guestView) /\ UNCHANGED history
    \/ CreateRoomCommit(guestView) /\ UNCHANGED history
    \/ CreateRoomDone(guestView) /\ UNCHANGED history

SpecCollide == InitCollide /\ [][NextCollide]_vars

\* ------------------------------------------------------------------ join
\* join from two tabs of one browser: the host has created the room, the
\* guest opens the room page in two tabs at once; both pages run checkAndAdd
\* for the same participant document, and either may vote once it exists.
InitJoin ==
    /\ InitAside
    /\ room = CreatedRoom("H", "T")
    /\ parts = [p \in Pids |->
                  IF p = "H" THEN [NewParticipant("host") EXCEPT !.online = FALSE]
                  ELSE AbsentDoc]
    /\ hostStore = [v \in Views |-> IF v = hostView THEN "H" ELSE ""]
    /\ mounted = [v \in Views |-> v \in GuestViews]
    /\ roomData = [v \in Views |-> NullRoom]
    /\ participants = [v \in Views |-> NoParticipants]
    /\ delivered = [v \in Views |-> NoParticipants]
    /\ alerts = [v \in Views |-> ""]
    /\ selectedCard = [v \in Views |-> NoCard]
    /\ isSubmitting = [v \in Views |-> FALSE]
    /\ joinPc = [v \in Views |-> IF v \in GuestViews THEN "start" ELSE "done"]
    /\ votePc = [v \in Views |-> IdleVote]
    /\ resetPc = [v \in Views |-> IdleReset]
    /\ cmds = 0
    /\ InitHistory

NextJoin ==
    \/ \E v \in Views : RoomSnapshot(v) /\ UNCHANGED history
    \/ \E v \in Views : ParticipantsSnapshot(v) /\ UNCHANGED history
    \/ \E v \in Views : checkAndAddRead(v) /\ UNCHANGED history
    \/ \E v \in Views : checkAndAddWrite(v) /\ UNCHANGED history
    \/ \E v \in Views, value \in Votes : handleCardSelect(v, value) /\ UNCHANGED history
    \/ \E v \in Views : CardSelectCommit(v) /\ UNCHANGED history
    \/ \E v \in Views : CardSelectDone(v) /\ UNCHANGED history
    \/ \E v \in Views : CardSelectFail(v) /\ UNCHANGED history

SpecJoin == InitJoin /\ [][NextJoin]_vars

\* ------------------------------------------------------------- teardown
\* The "back" link of the room page: router.push("/").  The page unmounts
\* and the cleanups of its effects run: both subscriptions are
\* unsubscribed, the heartbeat timer is cleared and updateOnlineStatus(false)
\* is sent.
LeaveRoom(v) ==
    /\ Rendered(v)
    /\ Unmounted(v)
    /\ updateOnlineStatus(v, FALSE)
    /\ UNCHANGED <<storeVars, hostStore, alerts, pcVars, cmds, now, beatAt>>

\* A room snapshot with the presence it causes: when it makes the page
\* leave (room ended or not found), the same cleanups run.
RoomSnapshotCleanup(v) ==
    /\ RoomSnapshot(v)
    /\ IF mounted'[v] THEN UNCHANGED beatPc ELSE updateOnlineStatus(v, FALSE)
    /\ UNCHANGED <<now, beatAt>>

\* Host and guest are in the room with the result revealed, their
\* heartbeats running; either may leave and the host may end the room.
InitTeardown ==
    /\ InitAside
    /\ InitHistory
    /\ room = [CreatedRoom("H", "T") EXCEPT !.status = "revealed"]
    /\ parts = [p \in Pids |-> NewParticipant(IF p = "H" THEN "host" ELSE "guest")]
    /\ hostStore = [v \in Views |-> IF v = hostView THEN "H" ELSE ""]
    /\ mounted = [v \in Views |-> v # guestTab]
    /\ roomData = [v \in Views |->
                     IF v # guestTab
                     THEN [status |-> "revealed", hostId |-> "H", topic |-> "T"]
                     ELSE NullRoom]
    /\ participants = [v \in Views |-> NoParticipants]
    /\ delivered = [v \in Views |-> NoParticipants]
    /\ alerts = [v \in Views |-> ""]
    /\ selectedCard = [v \in Views |-> NoCard]
    /\ isSubmitting = [v \in Views |-> FALSE]
    /\ joinPc = [v \in Views |-> "done"]
    /\ votePc = [v \in Views |-> IdleVote]
    /\ resetPc = [v \in Views |-> IdleReset]
    /\ cmds = 0

NextTeardown ==
    \/ TickStep
    \/ \E v \in Views : HeartbeatStep(v)
    \/ \E v \in Views : CommitStep(v)
    \/ \E v \in Views : LostStep(v)
    \/ \E v \in Views :
          ParticipantsSnapshot(v) /\ UNCHANGED <<presenceFrame, presenceVars>>
    \/ \E v \in Views : LeaveRoom(v) /\ UNCHANGED <<presenceFrame, snapAt>>
    \/ \E v \in Views : RoomSnapshotCleanup(v) /\ UNCHANGED <<presenceFrame, snapAt>>
    \/ \E v \in Views :
          /\ EndRoomButton(v) /\ handleEndRoom(v)
          /\ UNCHANGED <<presenceFrame, presenceVars>>

SpecTeardown == InitTeardown /\ [][NextTeardown]_vars

\* ----------------------------------------------------- reset versus vote
\* The result is revealed; the host's page shows it, the guest's page still
\* shows the open round.  The host resets the round once and the guest
\* selects the card toggle.x once, in any order and overlap.  epoch counts
\* the reset batches applied, toggle.n the guest's resolved calls.
InitRace ==
    \E ch \in {NoCard, 1}, c0 \in {NoCard} \cup Votes, x \in Votes :
       /\ InitAside
       /\ room = [CreatedRoom("H", "T") EXCEPT !.status = "revealed"]
       /\ parts = [p \in Pids |->
                     IF p = "H"
                     THEN [NewParticipant("host") EXCEPT !.selectedCard = ch]
                     ELSE [NewParticipant("guest") EXCEPT !.selectedCard = c0]]
       /\ hostStore = [v \in Views |-> IF v = hostView THEN "H" ELSE ""]
       /\ mounted = [v \in Views |-> v # guestTab]
       /\ roomData = [v \in Views |->
                        IF v = hostView
                        THEN [status |-> "revealed", hostId |-> "H", topic |-> "T"]
                        ELSE IF v = guestView
                        THEN [status |-> "voting", hostId |-> "H", topic |-> "T"]
                        ELSE NullRoom]
       /\ participants = [v \in Views |-> NoParticipants]
       /\ delivered = [v \in Views |-> NoParticipants]
       /\ alerts = [v \in Views |-> ""]
       /\ selectedCard = [v \in Views |->
                            IF v = hostView THEN ch
                            ELSE IF v = guestView THEN c0 ELSE NoCard]
       /\ isSubmitting = [v \in Views |-> FALSE]
       /\ joinPc = [v \in Views |-> "done"]
       /\ votePc = [v \in Views |-> IdleVote]
       /\ resetPc = [v \in Views |-> IdleReset]
       /\ cmds = 0
       /\ denied = FALSE
       /\ epoch = 0
       /\ roomEpoch = [v \in Views |-> 0]
       /\ partsEpoch = [v \in Views |-> 0]
       /\ secret = {}
       /\ viewSecret = [v \in Views |-> {}]
       /\ toggle = [c0 |-> c0, x |-> x, n |-> 0]

raceFrame == <<denied, roomEpoch, partsEpoch, secretVars, aside>>

\* The two commands, each issued once.
CommandsRace ==
    \/ /\ toggle.n = 0
       /\ handleCardSelect(guestView, toggle.x)
       /\ UNCHANGED history
    \/ /\ epoch = 0
       /\ NextRoundButton(hostView) /\ handleNextRound(hostView)
       /\ UNCHANGED history

\* What the store and the event loops do on their own.
DeliveryRace ==
    \/ \E v \in Views : RoomSnapshot(v) /\ UNCHANGED history
    \/ \E v \in Views : ParticipantsSnapshot(v) /\ UNCHANGED history
    \/ CardSelectCommit(guestView) /\ UNCHANGED history
    \/ /\ CardSelectDone(guestView)
       /\ toggle' = [toggle EXCEPT !.n = @ + 1]
       /\ UNCHANGED <<raceFrame, epoch>>
    \/ /\ CardSelectFail(guestView)
       /\ toggle' = [toggle EXCEPT !.n = @ + 1]
       /\ UNCHANGED <<raceFrame, epoch>>
    \/ /\ NextRoundCommit(hostView)
       /\ epoch' = epoch + 1
       /\ UNCHANGED <<raceFrame, toggle>>
    \/ NextRoundDone(hostView) /\ UNCHANGED history

NextRace == CommandsRace \/ DeliveryRace

SpecRace == InitRace /\ [][NextRace]_vars

\* The same machine when the store answers every write, every continuation
\* runs and every snapshot is delivered.
SpecConverge == SpecRace /\ WF_vars(DeliveryRace)

\* ----------------------------------------------------- concurrent votes
\* Host and guest are in the room and the round is open; both select cards,
\* in any order and overlap.
NextFrame ==
    \/ \E v \in Views : ParticipantsSnapshot(v) /\ UNCHANGED history
    \/ \E v \in Views, value \in Votes : handleCardSelect(v, value) /\ UNCHANGED history
    \/ \E v \in Views : CardSelectCommit(v) /\ UNCHANGED history
    \/ \E v \in Views : CardSelectDone(v) /\ UNCHANGED history
    \/ \E v \in Views : CardSelectFail(v) /\ UNCHANGED history

SpecFrame == InitPresence /\ [][NextFrame]_vars

\* ------------------------------------------------------ participant panel
\* const [hideOffline] = useState(false): no setter is taken, the value
\* never changes
hideOffline == FALSE

\* const visibleParticipants = hideOffline
\*     ? participants.filter((p) => p.online) : participants
visibleParticipants(v) ==
    {p \in Pids : /\ participants[v][p].exists
                  /\ (hideOffline => participants[v][p].online)}

\* 参加者 ： {visibleParticipants.length} 人
participantCount(v) == Cardinality(visibleParticipants(v))

\* const notVotedCount =
\*     visibleParticipants.filter((p) => p.selectedCard === null).length
notVotedCount(v) ==
    Cardinality({p \in visibleParticipants(v) :
                    participants[v][p].selectedCard = NoCard})

\* ------------------------------------------------- votes of the absent
\* snapshot.forEach(...): the entries of the list, in the order of the
\* document identifiers
PidOrder == <<"G", "H">>

\* Variant of tallyInput that leaves out the entries shown offline
\* (OfflineVoteCounted must not survive it).
tallyInputOnline(v) ==
    LET listed == SelectSeq(PidOrder, LAMBDA p : /\ participants[v][p].exists
                                                 /\ participants[v][p].online)
    IN  [i \in 1..Len(listed) |-> participants[v][listed[i]].selectedCard]

\* tallyVotes(participants): the argument, the whole list of the view
tallyInput(v) ==
    LET listed == SelectSeq(PidOrder, LAMBDA p : participants[v][p].exists)
    IN  [i \in 1..Len(listed) |-> participants[v][listed[i]].selectedCard]

\* const counts = tallyVotes(participants), on the page of view v
countsOf(v) == tallyVotes(tallyInput(v))

\* rankMap, on the page of view v
rankMapOf(v) == RankMapOf(Ranked(countsOf(v)))

\* The result is revealed with the guest's vote in it and the host's page
\* shows it.  The guest has just left the page: the updateOnlineStatus(false)
\* of its cleanup is in flight and may reach the store or not.  The host
\* stays and may reset the round once.
InitStaleVote ==
    /\ votes = <<>>
    /\ counts = ZeroCounts
    /\ ranked = <<>>
    /\ rankMap = [c \in CARD_VALUES |-> 0]
    /\ tallyPc = "input"
    /\ rejected = FALSE
    /\ hidden = [v \in Views |-> FALSE]
    /\ storeUp = TRUE
    /\ now = 0
    /\ beatPc = [v \in Views |->
                   IF v = guestView THEN [st |-> "pending", online |-> FALSE]
                   ELSE IdleBeat]
    /\ beatAt = [v \in Views |-> 0]
    /\ snapAt = [v \in Views |-> 0]
    /\ InitHistory
    /\ \E g \in Votes, h \in {NoCard, 1} :
          parts = [p \in Pids |->
                      IF p = "H"
                      THEN [NewParticipant("host") EXCEPT !.selectedCard = h]
                      ELSE [NewParticipant("guest") EXCEPT !.selectedCard = g]]
    /\ room = [CreatedRoom("H", "T") EXCEPT !.status = "revealed"]
    /\ hostStore = [v \in Views |-> IF v = hostView THEN "H" ELSE ""]
    /\ mounted = [v \in Views |-> v = hostView]
    /\ roomData = [v \in Views |->
                     IF v = hostView
                     THEN [status |-> "revealed", hostId |-> "H", topic |-> "T"]
                     ELSE NullRoom]
    /\ participants = [v \in Views |->
                         IF v = hostView THEN ParticipantsList(parts)
                         ELSE NoParticipants]
    /\ delivered = [v \in Views |-> IF v = hostView THEN parts ELSE NoParticipants]
    /\ alerts = [v \in Views |-> ""]
    /\ selectedCard = [v \in Views |->
                         IF v = hostView THEN parts["H"].selectedCard ELSE NoCard]
    /\ isSubmitting = [v \in Views |-> FALSE]
    /\ joinPc = [v \in Views |-> "done"]
    /\ votePc = [v \in Views |-> IdleVote]
    /\ resetPc = [v \in Views |-> IdleReset]
    /\ cmds = 0

NextStaleVote ==
    \/ TickStep
    \/ \E v \in Views : HeartbeatStep(v)
    \/ \E v \in Views : CommitStep(v)
    \/ \E v \in Views : LostStep(v)
    \/ \E v \in Views : SnapshotStep(v)
    \/ \E v \in Views :
          RoomSnapshot(v) /\ UNCHANGED <<presenceFrame, presenceVars>>
    \/ \E v \in Views :
          /\ cmds = 0
          /\ NextRoundButton(v) /\ handleNextRound(v)
          /\ UNCHANGED <<presenceFrame, presenceVars>>
    \/ \E v \in Views : NextRoundCommit(v) /\ UNCHANGED <<presenceFrame, presenceVars>>
    \/ \E v \in Views : NextRoundDone(v) /\ UNCHANGED <<presenceFrame, presenceVars>>

SpecStaleVote == InitStaleVote /\ [][NextStaleVote]_vars

\* --------------------------------------------------------------- outage
\* Variant of OnlineStatusFail whose catch also stops the heartbeat timer
\* (HeartbeatSurvives must not survive it).
OnlineStatusFailStops(v) ==
    /\ ~storeUp
    /\ beatPc[v].st = "pending"
    /\ beatPc' = [beatPc EXCEPT ![v] = IdleBeat]
    /\ beatAt' = [beatAt EXCEPT ![v] = MaxTime + HEARTBEAT_INTERVAL_MS]
    /\ UNCHANGED <<roomVars, now, storeUp, hidden>>

\* The store rejects the update of updateOnlineStatus: the catch logs the
\* error (console.error) and the function returns.
OnlineStatusFail(v) ==
    /\ ~storeUp
    /\ beatPc[v].st = "pending"
    /\ beatPc' = [beatPc EXCEPT ![v] = IdleBeat]
    /\ UNCHANGED <<roomVars, now, beatAt, storeUp, hidden>>

\* The store accepts writes again.
StoreRecovers ==
    /\ ~storeUp
    /\ storeUp' = TRUE
    /\ UNCHANGED <<roomVars, presenceVars, hidden>>

\* What an outage leaves alone.
outageFrame == <<denied, epochVars, secretVars, toggle, tallyVars, rejected>>

\* Host and guest are in the room, as in InitPresence, and the store
\* rejects the writes it is sent.
InitOutage ==
    /\ votes = <<>>
    /\ counts = ZeroCounts
    /\ ranked = <<>>
    /\ rankMap = [c \in CARD_VALUES |-> 0]
    /\ tallyPc = "input"
    /\ rejected = FALSE
    /\ hidden = [v \in Views |-> FALSE]
    /\ storeUp = FALSE
    /\ now = 0
    /\ beatPc = [v \in Views |-> IdleBeat]
    /\ beatAt = [v \in Views |-> 0]
    /\ snapAt = [v \in Views |-> 0]
    /\ InitHistory
    /\ room = CreatedRoom("H", "T")
    /\ parts = [p \in Pids |-> NewParticipant(IF p = "H" THEN "host" ELSE "guest")]
    /\ hostStore = [v \in Views |-> IF v = hostView THEN "H" ELSE ""]
    /\ mounted = [v \in Views |-> v # guestTab]
    /\ roomData = [v \in Views |->
                     IF v # guestTab
                     THEN [status |-> "voting", hostId |-> "H", topic |-> "T"]
                     ELSE NullRoom]
    /\ participants = [v \in Views |-> NoParticipants]
    /\ delivered = [v \in Views |-> NoParticipants]
    /\ alerts = [v \in Views |-> ""]
    /\ selectedCard = [v \in Views |-> NoCard]
    /\ isSubmitting = [v \in Views |-> FALSE]
    /\ joinPc = [v \in Views |-> "done"]
    /\ votePc = [v \in Views |-> IdleVote]
    /\ resetPc = [v \in Views |-> IdleReset]
    /\ cmds = 0

AcceptStep(v) == storeUp /\ CommitStep(v)
FailStep(v) == OnlineStatusFail(v) /\ UNCHANGED <<outageFrame, snapAt>>
RecoverStep == StoreRecovers /\ UNCHANGED outageFrame

NextOutage ==
    \/ TickStep
    \/ \E v \in Views : HeartbeatStep(v)
    \/ \E v \in Views : AcceptStep(v)
    \/ \E v \in Views : FailStep(v)
    \/ RecoverStep
    \/ \E v \in Views : SnapshotStep(v)

\* The clock runs, the timers fire, the store answers.
SpecOutage ==
    /\ InitOutage /\ [][NextOutage]_vars
    /\ WF_vars(TickStep)
    /\ \A v \in Views : WF_vars(HeartbeatStep(v))
    /\ \A v \in Views : WF_vars(AcceptStep(v))
    /\ \A v \in Views : WF_vars(FailStep(v))

\* ------------------------------------------------------------ visibility
\* Variant of handleVisibilityChange without the "visible" branch
\* (VisibilityHooks must not survive it).
handleVisibilityChangeHiddenOnly(v) ==
    /\ mounted[v]
    /\ cmds < MaxCommands
    /\ cmds' = cmds + 1
    /\ hidden' = [hidden EXCEPT ![v] = ~hidden[v]]
    /\ IF hidden'[v] THEN updateOnlineStatus(v, FALSE) ELSE UNCHANGED beatPc
    /\ UNCHANGED <<storeVars, hostStore, reactVars, pcVars, now, beatAt, storeUp>>

\* The user hides the tab of view v or brings it back (counted as a
\* command): the visibilitychange listener, registered while the page is
\* mounted, runs handleVisibilityChange:
\* if (document.visibilityState === "hidden") updateOnlineStatus(false)
\* else if (document.visibilityState === "visible") updateOnlineStatus(true)
handleVisibilityChange(v) ==
    /\ mounted[v]
    /\ cmds < MaxCommands
    /\ cmds' = cmds + 1
    /\ hidden' = [hidden EXCEPT ![v] = ~hidden[v]]
    /\ IF hidden'[v] THEN updateOnlineStatus(v, FALSE)
       ELSE updateOnlineStatus(v, TRUE)
    /\ UNCHANGED <<storeVars, hostStore, reactVars, pcVars, now, beatAt, storeUp>>

\* What a visibility change leaves alone.
visibilityFrame == <<denied, epochVars, secretVars, toggle, tallyVars, rejected,
                     snapAt>>

\* A client's writes reach the store in the order it issued them, so a
\* call of updateOnlineStatus that falls between an earlier one and its
\* answer acts on the store as one made right after the answer: the steps
\* that call it are taken with no earlier call pending.
Answered(v) == beatPc[v].st = "idle"

VisibilityStep(v) == Answered(v) /\ handleVisibilityChange(v) /\ UNCHANGED visibilityFrame
TimerStep(v) == Answered(v) /\ HeartbeatStep(v)

\* Host and guest are in the room, their tabs visible (InitPresence); the
\* timers run, and either user hides the tab and brings it back.  What the
\* pages show is left out: the steps below are about the writes.
NextVisibility ==
    \/ TickStep
    \/ \E v \in Views : TimerStep(v)
    \/ \E v \in Views : CommitStep(v)
    \/ \E v \in Views : VisibilityStep(v)

SpecVisibility == InitPresence /\ [][NextVisibility]_vars

\* ---------------------------------------------------------- late creation
\* withTimeout(setDoc(...), 15000, "setDoc rooms"): the timer rejects while
\* the room write has not completed, and handleCreateRoom ends in its catch
\* and finally; Promise.race does not cancel the setDoc, which stays with
\* the store's client (joinPc "lateWrite").
CreateRoomTimeoutLate(v) ==
    /\ joinPc[v] = "roomWrite"
    /\ alerts' = [alerts EXCEPT ![v] = "createFailed"]
    /\ joinPc' = [joinPc EXCEPT ![v] = "lateWrite"]
    /\ UNCHANGED <<storeVars, hostStore, mounted, roomData, participants,
                   delivered, selectedCard, isSubmitting, votePc, resetPc, cmds>>

\* The store applies the room write after the timeout: no handler is left
\* that waits for it.
CreateRoomLateCommit(v) ==
    /\ joinPc[v] = "lateWrite"
    /\ room' = CreatedRoom(participantId(v), topic(v))
    /\ joinPc' = [joinPc EXCEPT ![v] = "done"]
    /\ UNCHANGED <<parts, hostStore, reactVars, votePc, resetPc, cmds>>

\* The room write never reaches the store.
CreateRoomLateLost(v) ==
    /\ joinPc[v] = "lateWrite"
    /\ joinPc' = [joinPc EXCEPT ![v] = "done"]
    /\ UNCHANGED <<storeVars, hostStore, reactVars, votePc, resetPc, cmds>>

\* The machine of NextNotFound with the room write outliving its timeout.
\* The view's next command waits until the late write has settled, and no
\* other creation draws the identifier meanwhile.
NextLate ==
    \/ \E v \in Views : RoomSnapshot(v) /\ UNCHANGED history
    \/ \E v \in Views : ParticipantsSnapshot(v) /\ UNCHANGED history
    \/ \E v \in Views : checkAndAddRead(v) /\ UNCHANGED history
    \/ \E v \in Views : checkAndAddWrite(v) /\ UNCHANGED history
    \/ \E v \in Views : handleJoinRoom(v) /\ UNCHANGED history
    \/ \E v \in Views :
          /\ IdUnused /\ \A w \in Views : joinPc[w] # "lateWrite"
          /\ handleCreateRoom(v) /\ UNCHANGED history
    \/ \E v \in Views : CreateRoomCommit(v) /\ UNCHANGED history
    \/ \E v \in Views : CreateRoomTimeoutLate(v) /\ UNCHANGED history
    \/ \E v \in Views : CreateRoomLateCommit(v) /\ UNCHANGED history
    \/ \E v \in Views : CreateRoomLateLost(v) /\ UNCHANGED history
    \/ \E v \in Views : CreateRoomReject(v) /\ UNCHANGED history
    \/ \E v \in Views : CreateRoomDone(v) /\ UNCHANGED history

SpecLate == InitNotFound /\ [][NextLate]_vars

\* ------------------------------------------------------- records at entry
\* The host has created the room and closed its page; the guest has just
\* opened the room page: its record does not exist until checkAndAdd has
\* written it, while the heartbeat timer, the visibility listener and, when
\* the guest leaves, the cleanups already send presence updates.  Votes
\* follow once the page shows the room.
InitEntry ==
    /\ InitAside
    /\ InitHistory
    /\ room = CreatedRoom("H", "T")
    /\ parts = [p \in Pids |->
                  IF p = "H" THEN [NewParticipant("host") EXCEPT !.online = FALSE]
                  ELSE AbsentDoc]
    /\ hostStore = [v \in Views |-> IF v = hostView THEN "H" ELSE ""]
    /\ mounted = [v \in Views |-> v = guestView]
    /\ roomData = [v \in Views |-> NullRoom]
    /\ participants = [v \in Views |-> NoParticipants]
    /\ delivered = [v \in Views |-> NoParticipants]
    /\ alerts = [v \in Views |-> ""]
    /\ selectedCard = [v \in Views |-> NoCard]
    /\ isSubmitting = [v \in Views |-> FALSE]
    /\ joinPc = [v \in Views |-> IF v = guestView THEN "start" ELSE "done"]
    /\ votePc = [v \in Views |-> IdleVote]
    /\ resetPc = [v \in Views |-> IdleReset]
    /\ cmds = 0

NextEntry ==
    \/ TickStep
    \/ \E v \in Views : TimerStep(v)
    \/ \E v \in Views : CommitStep(v)
    \/ \E v \in Views : LostStep(v)
    \/ \E v \in Views : VisibilityStep(v)
    \/ \E v \in Views :
          /\ Answered(v) /\ LeaveRoom(v)
          /\ UNCHANGED <<presenceFrame, snapAt>>
    \/ \E v \in Views : RoomSnapshot(v) /\ UNCHANGED history
    \/ \E v \in Views : ParticipantsSnapshot(v) /\ UNCHANGED history
    \/ \E v \in Views : checkAndAddRead(v) /\ UNCHANGED history
    \/ \E v \in Views : checkAndAddWrite(v) /\ UNCHANGED history
    \/ \E v \in Views, value \in Votes : handleCardSelect(v, value) /\ UNCHANGED history
    \/ \E v \in Views : CardSelectCommit(v) /\ UNCHANGED history
    \/ \E v \in Views : CardSelectDone(v) /\ UNCHANGED history
    \/ \E v \in Views : CardSelectFail(v) /\ UNCHANGED history

SpecEntry == InitEntry /\ [][NextEntry]_vars

\* ------------------------------------------------- the room state machine
\* C1: once the stored room status is ended it stays ended, whatever
\* commands the clients issue.
EndedIsTerminal == [][room.status = "ended" => room'.status = "ended"]_vars

\* C2: a host's reveal issues its write only while the stored room status
\* is voting.
RevealOnlyWhenVoting ==
    [][\A v \in Views :
          (handleReveal(v) /\ HostGuard(v)) => room.status = "voting"]_vars

\* C3: a reset batch is committed only for a resetRound that the host
\* invoked while the stored room status was revealed.
ResetOnlyWhenRevealed ==
    \A v \in Views : resetPc[v].st = "committed" => resetPc[v].at = "revealed"

\* C4: a host's endRoom issues its write only while the stored room status
\* is revealed.
EndOnlyWhenRevealed ==
    [][\A v \in Views :
          (handleEndRoom(v) /\ HostGuard(v)) => room.status = "revealed"]_vars

\* C6: when the reset batch commits, the room status is voting and every
\* participant record that exists then has selectedCard = null.
ResetClearsEveryRecord ==
    [][\A v \in Views :
          NextRoundCommit(v) =>
              /\ room'.status = "voting"
              /\ \A p \in Pids :
                    parts'[p].exists => parts'[p].selectedCard = NoCard]_vars

\* C9: no selectCard write changes a stored selectedCard while the stored
\* room status is revealed or ended.
VoteOnlyWhenVoting ==
    [][\A v \in Views :
          (CardSelectCommit(v) /\ parts' # parts) => room.status = "voting"]_vars

\* C5: a view whose remembered host identifier is not the room's hostId
\* never writes: its reveal, resetRound and endRoom return with the room,
\* the participants and the pending reset untouched, and every step that
\* changes the room document is the write of a view that holds the hostId.
HoldsHostId(v) == hostStore[v] = room.hostId

HostOnlyTransitions ==
    [][/\ \A v \in Views :
             (~HoldsHostId(v)
              /\ (handleReveal(v) \/ handleEndRoom(v) \/ handleNextRound(v)))
             => UNCHANGED <<room, parts, resetPc>>
       /\ room' # room =>
             \E v \in Views :
                /\ HoldsHostId(v)
                /\ \/ handleReveal(v) /\ HostGuard(v)
                   \/ handleEndRoom(v) /\ HostGuard(v)
                   \/ NextRoundCommit(v)]_vars

\* C5 witness: a non-host view has invoked a host-only handler, which
\* returned, and meanwhile the host has moved the room on.
NonHostWasDenied ==
    /\ denied
    /\ room.status = "revealed"
    /\ Rendered(guestView)
    /\ ~HoldsHostId(guestView)


\* ------------------------------------------------------------ the views
\* What the participant list and the result area show of p's vote on view
\* v: the value itself when isRevealed || isMe, a "voted" mark otherwise.
ShowsValue(v, p) ==
    /\ Rendered(v)
    /\ participants[v][p].exists
    /\ participants[v][p].selectedCard # NoCard
    /\ (isRevealed(v) \/ p = participantId(v))

SecretVoteHidden ==
    \A v \in Views, p \in Pids :
       (p # participantId(v) /\ p \in viewSecret[v] /\ ShowsValue(v, p))
          => room.status = "revealed"

\* --------------------------------------------------------------- toggle
\* C10 (as claimed): after two resolved selectCard(x) the stored card is
\* null; after one it is null when the card before it was x, else x.
ToggleTwiceIsNull ==
    LET stored == parts["G"].selectedCard IN
    votePc[guestView].st = "idle" =>
       /\ toggle.n = 1 => stored = IF toggle.c0 = toggle.x THEN NoCard ELSE toggle.x
       /\ toggle.n = 2 => stored = NoCard

\* C10 (as the code has it): one resolved selectCard(x) leaves null when
\* the card before it was x and x otherwise; two leave null when the card
\* before the first was not x, and x when it was x.  The view's own
\* selection agrees with the store each time.
ToggleLaw ==
    LET stored == parts["G"].selectedCard IN
    votePc[guestView].st = "idle" =>
       /\ toggle.n = 1 => stored = IF toggle.c0 = toggle.x THEN NoCard ELSE toggle.x
       /\ toggle.n = 2 => stored = IF toggle.c0 = toggle.x THEN toggle.x ELSE NoCard
       /\ selectedCard[guestView] = stored

\* C10 witness: the value was selected twice, starting from another card,
\* and the record is back to null.
ToggledTwice ==
    /\ toggle.n = 2
    /\ votePc[guestView].st = "idle"
    /\ toggle.c0 \in CARD_VALUES \ {toggle.x}
    /\ parts["G"].selectedCard = NoCard

\* ---------------------------------------------------------- result area
\* Number of entries of a list whose card is c.
Occurrences(cards, c) == Cardinality({i \in 1..Len(cards) : cards[i] = c})

RECURSIVE SumCounts(_, _)
\* The sum of cnt[1..n].
SumCounts(cnt, n) == IF n = 0 THEN 0 ELSE cnt[n] + SumCounts(cnt, n - 1)

\* C12: counts has an entry for each card 1..7, counts[v] is the number of
\* entries whose selectedCard is v, and the counts add up to the number of
\* entries with a card.
TallyCounts ==
    tallyPc = "rendered" =>
       /\ DOMAIN counts = CARD_VALUES
       /\ \A c \in CARD_VALUES : counts[c] = Occurrences(votes, c)
       /\ SumCounts(counts, MaxCard) =
             Cardinality({i \in 1..Len(votes) : votes[i] # NoCard})

\* C12 witness: a list with a tie, a zero count and an entry without card
\* has been tallied.
TalliedList ==
    /\ tallyPc = "rendered"
    /\ Len(votes) = 3
    /\ \E i \in 1..3 : votes[i] = NoCard
    /\ \E c \in CARD_VALUES : counts[c] = 2

\* C13: two cards with equal counts have equal ranks.
TieConsistentRanks ==
    tallyPc = "rendered" =>
       \A a, b \in CARD_VALUES :
          counts[a] = counts[b] => rankMap[a] = rankMap[b]

\* C14: the rank of a card is 1 plus the number of cards with a strictly
\* greater count.
CompetitionRank(cnt, v) == 1 + Cardinality({u \in CARD_VALUES : cnt[u] > cnt[v]})

CompetitionRanking ==
    tallyPc = "rendered" =>
       \A v \in CARD_VALUES : rankMap[v] = CompetitionRank(counts, v)

\* C15: a card carries a medal and its rank exactly when its count is
\* positive and its computed rank is at most 3; a card without votes is
\* never decorated.
MedalEligibility ==
    tallyPc = "rendered" =>
       \A v \in CARD_VALUES :
          /\ CrownShown(v) <=> (counts[v] > 0 /\ rankMap[v] <= 3)
          /\ RankShown(v) <=> (counts[v] > 0 /\ rankMap[v] <= 3)
          /\ Occurrences(votes, v) = 0 => ~CrownShown(v) /\ ~RankShown(v)

\* C15 witness: three cards with votes are decorated and a card without
\* votes, of rank at most 3, is not.
MedalsShown ==
    /\ tallyPc = "rendered"
    /\ Cardinality({v \in CARD_VALUES : CrownShown(v)}) = 2
    /\ \E v \in CARD_VALUES : counts[v] = 0 /\ rankMap[v] = 3 /\ ~CrownShown(v)

\* --------------------------------------------------------------- overlap
\* A selectCard write of view v has been handed to the store and its
\* handler has not finished.
InFlight(v) == votePc[v].st \in {"issued", "acked"}

\* C11 (as claimed): a participant never has more than one selectCard
\* write in flight.
NoParticipantOverlap ==
    \A v, w \in Views :
       (v # w /\ participantId(v) = participantId(w))
          => ~(InFlight(v) /\ InFlight(w))

\* C11 (as the code has it): a view never has more than one selectCard
\* write in flight -- a page issues a write only when its previous one has
\* resolved, and a selectCard invoked on a page whose write is in flight
\* changes neither the store nor the pending write.
NoViewOverlap ==
    [][\A v \in Views :
          /\ (\E value \in Votes : handleCardSelect(v, value)) => ~InFlight(v)
          /\ (CardSelectRejected(v) /\ InFlight(v))
                => UNCHANGED <<room, parts, votePc>>]_vars

\* C11 witness: a selectCard was invoked on a page whose write was in
\* flight and returned, and that write is still the page's only one.
OverlapRejected ==
    \E v \in Views :
       /\ rejected
       /\ votePc[v].st = "issued"
       /\ isSubmitting[v]
       /\ cmds >= 2

\* -------------------------------------------------------------- presence
\* The presence the list of view v was computed from, for the entry of p.
Seen(v, p) == delivered[v][p]

\* C16 (as claimed): an entry is listed online exactly when its stored flag
\* is true and its lastSeenAt is present and at most OFFLINE_THRESHOLD old.
EffectivePresenceStrict ==
    \A v \in Views, p \in Pids :
       (mounted[v] /\ Seen(v, p).exists) =>
          (participants[v][p].online <=>
              /\ Seen(v, p).online
              /\ Seen(v, p).lastSeenAt # NoStamp
              /\ snapAt[v] - Seen(v, p).lastSeenAt <= OFFLINE_THRESHOLD_MS)

\* C16 (as the code has it): an entry is listed online exactly when its
\* stored flag is true and its lastSeenAt is absent or at most
\* OFFLINE_THRESHOLD old.
EffectivePresence ==
    \A v \in Views, p \in Pids :
       (mounted[v] /\ Seen(v, p).exists) =>
          (participants[v][p].online <=>
              /\ Seen(v, p).online
              /\ \/ Seen(v, p).lastSeenAt = NoStamp
                 \/ snapAt[v] - Seen(v, p).lastSeenAt <= OFFLINE_THRESHOLD_MS)

\* C16 witness: one snapshot lists the view's own record, whose lastSeenAt
\* is absent, online, and a record with a true flag and an old lastSeenAt
\* offline.
CorrectedSnapshot ==
    \E v \in Views, p \in Pids :
       /\ mounted[v]
       /\ Seen(v, participantId(v)).lastSeenAt = NoStamp
       /\ participants[v][participantId(v)].online
       /\ Seen(v, p).online
       /\ ~participants[v][p].online

\* C17 (as claimed): in every state and every running view, a participant
\* whose last heartbeat is more than OFFLINE_THRESHOLD old is shown offline.
PresenceLaw ==
    \A v \in Views, p \in Pids :
       (mounted[v] /\ parts[p].exists
        /\ now - parts[p].lastSeenAt > OFFLINE_THRESHOLD_MS)
          => ~participants[v][p].online

\* C17 (as the code has it): a participant whose last heartbeat was more
\* than OFFLINE_THRESHOLD old when the view received its last participants
\* snapshot is shown offline, whatever the stored flag.
PresenceAtSnapshot ==
    \A v \in Views, p \in Pids :
       (mounted[v] /\ Seen(v, p).exists /\ Seen(v, p).lastSeenAt # NoStamp
        /\ snapAt[v] - Seen(v, p).lastSeenAt > OFFLINE_THRESHOLD_MS)
          => ~participants[v][p].online

\* C17 witness: the guest stopped, its stored flag is still true, and the
\* host's view, refreshed after the threshold, shows it offline.
StaleShownOffline ==
    /\ ~mounted[guestView]
    /\ parts["G"].online
    /\ snapAt[hostView] - parts["G"].lastSeenAt > OFFLINE_THRESHOLD_MS
    /\ participants[hostView]["G"].exists
    /\ ~participants[hostView]["G"].online

\* C18: when the guest's client stops without writing online=false while
\* the host's keeps running, the host's view eventually shows the guest
\* offline, and from then on keeps showing it offline.
CrashDetected ==
    /\ (~mounted[guestView]) ~>
          (delivered[hostView]["G"].exists /\ ~participants[hostView]["G"].online)
    /\ [][(~mounted[guestView] /\ delivered[hostView]["G"].exists
           /\ ~participants[hostView]["G"].online)
             => ~participants'[hostView]["G"].online]_vars

\* C18 witness: the guest's client has stopped and the host's view still
\* shows it online.
CrashedShownOnline ==
    /\ ~mounted[guestView]
    /\ mounted[hostView]
    /\ parts["G"].online
    /\ participants[hostView]["G"].online

\* -------------------------------------------------------------- eviction
\* C19: once the stored status is ended, every view that is open
\* eventually leaves the room page.
ForcedEviction ==
    (room.status = "ended") ~> (\A v \in Views : ~mounted[v])

\* ------------------------------------------------------------- not found
\* C20: a room snapshot that reports the room document absent makes the
\* view surface room-not-found and leave for the entry screen with no room
\* data adopted; handleJoinRoom on a missing room surfaces it and stays on
\* the entry screen; no view ever holds data of an absent room, and a view
\* showing room-not-found is off the room page and is delivered nothing
\* more until the user starts a new join or creation.
RoomNotFoundExit ==
    /\ [](\A v \in Views :
            /\ roomData[v].status # "absent"
            /\ alerts[v] = "roomNotFound" => ~mounted[v] /\ roomData[v] = NullRoom)
    /\ [][\A v \in Views :
            /\ (RoomSnapshot(v) /\ room.status = "absent")
                  => /\ alerts'[v] = "roomNotFound"
                     /\ ~mounted'[v]
                     /\ roomData'[v] = NullRoom
                     /\ UNCHANGED storeVars
            /\ (handleJoinRoom(v) /\ room.status = "absent")
                  => /\ alerts'[v] = "joinNotFound"
                     /\ ~mounted'[v]
                     /\ roomData'[v] = NullRoom
                     /\ UNCHANGED storeVars
            /\ (alerts[v] \in {"roomNotFound", "joinNotFound"}
                /\ alerts'[v] = alerts[v])
                  => /\ UNCHANGED <<mounted[v], roomData[v], participants[v]>>
                     /\ ~RoomSnapshot(v)]_vars

\* C20 witness: a view was told by its room snapshot that the room is
\* missing: it shows room-not-found, is back on the entry screen and holds
\* no room data, while the room is still missing.
ExitedNotFound ==
    \E v \in Views :
        /\ alerts[v] = "roomNotFound"
        /\ ~mounted[v]
        /\ roomData[v] = NullRoom
        /\ room.status = "absent"

\* ------------------------------------------------------------------ join
\* C21: the write of a join creates the caller's record (given name, no
\* card, online) when the store holds none, and when the store holds one it
\* sets online and lastSeenAt and leaves name and selectedCard as they are.
JoinCreateOrRefresh ==
    [][\A v \in Views :
          checkAndAddWrite(v) =>
             IF parts[participantId(v)].exists
             THEN /\ parts'[participantId(v)].online
                  /\ parts'[participantId(v)].name = parts[participantId(v)].name
                  /\ parts'[participantId(v)].selectedCard =
                        parts[participantId(v)].selectedCard
             ELSE parts'[participantId(v)] = NewParticipant(userName(v))]_vars

\* ----------------------------------------------------------- create room
\* C22: when a create-room command succeeds, the store holds the room with
\* status voting, the creator's participant identifier as hostId and the
\* topic; the creator's local store holds that host identifier; and the
\* creator has a participant record with no card that is online.
RoomCreated ==
    [][\A v \in Views :
          CreateRoomDone(v) =>
             /\ room'.status = "voting"
             /\ room'.hostId = participantId(v)
             /\ room'.topic = topic(v)
             /\ hostStore'[v] = room'.hostId
             /\ parts'[participantId(v)].exists
             /\ parts'[participantId(v)].selectedCard = NoCard
             /\ parts'[participantId(v)].online]_vars

\* C22 witness: a view has created the room and has just entered it.
CreatedAndEntered ==
    \E v \in Views :
        /\ mounted[v]
        /\ joinPc[v] = "start"
        /\ hostStore[v] = participantId(v)
        /\ room.hostId = participantId(v)
        /\ room.status = "voting"
        /\ parts[participantId(v)].exists

\* C24: every create-room command eventually finishes: the creating flag
\* is cleared, by the navigation to the room or by a surfaced failure.
CreateRoomFinishes ==
    \A v \in Views : isCreating(v) ~> ~isCreating(v)

\* C23: once the room document exists, its hostId and topic never change.
HostIdFixed ==
    [][room.status # "absent" =>
          (room'.hostId = room.hostId /\ room'.topic = room.topic)]_vars

\* C23, amended: once the room document exists, its hostId and topic never
\* change, except when the room write of a create-room is applied under the
\* room's own identifier.
HostIdFixedUnlessReplaced ==
    [][(room.status # "absent" /\ ~(\E v \in Views : CreateRoomCommit(v))) =>
          (room'.hostId = room.hostId /\ room'.topic = room.topic)]_vars

\* C23 witness: the room has been revealed and ended by its host and still
\* holds the hostId and topic of its creation.
EndedWithItsHost ==
    /\ room.status = "ended"
    /\ room.hostId = "H"
    /\ room.topic = "T"

\* ----------------------------------------------------------- after ended
\* C25: a view that has observed status ended sends no further write: its
\* checkAndAdd sends no join write, and it sends no selectCard, reveal,
\* resetRound or endRoom write.
NoWriteAfterEnded ==
    [][\A v \in Views :
          alerts[v] = "ended" =>
             /\ ~checkAndAddRead(v)
             /\ ~(\E value \in Votes : handleCardSelect(v, value))
             /\ ~(HostGuard(v) /\ handleReveal(v))
             /\ ~(HostGuard(v) /\ handleNextRound(v))
             /\ ~(HostGuard(v) /\ handleEndRoom(v))]_vars

\* ------------------------------------------------------------- teardown
\* C26: a view that has left the room page sends no further heartbeat
\* write and processes no further room or participants snapshot: its timer
\* does not fire and its React state is not set.
Teardown ==
    [][\A v \in Views :
          ~mounted[v] =>
             /\ ~sendHeartbeat(v)
             /\ beatAt'[v] = beatAt[v]
             /\ ~(beatPc'[v] # beatPc[v] /\ beatPc'[v].st = "pending"
                  /\ beatPc'[v].online)
             /\ roomData'[v] = roomData[v]
             /\ participants'[v] = participants[v]
             /\ delivered'[v] = delivered[v]
             /\ selectedCard'[v] = selectedCard[v]
             /\ alerts'[v] = alerts[v]]_vars

\* C26 witness: a view was evicted by the ended room, its offline write
\* has been stored, its heartbeat is overdue and the store has changed
\* since its last participants snapshot.
TornDown ==
    \E v \in Views :
        /\ ~mounted[v]
        /\ alerts[v] = "ended"
        /\ ~parts[participantId(v)].online
        /\ now - beatAt[v] > HEARTBEAT_INTERVAL_MS

\* ----------------------------------------------------- reset versus vote
\* Both commands have been issued and have resolved.
RaceOver ==
    /\ epoch = 1
    /\ resetPc[hostView].st # "read"
    /\ toggle.n = 1
    /\ votePc[guestView].st = "idle"

\* C27: once a resetRound of the host and a selectCard of the guest have
\* both resolved, in whatever interleaving, the stored status is voting,
\* the guest's stored card is null or the value the guest selected, and
\* the host's stored card is null.
ResetVoteRace ==
    RaceOver =>
       /\ room.status = "voting"
       /\ parts["G"].selectedCard \in {NoCard, toggle.x}
       /\ parts["H"].selectedCard = NoCard

\* C27 witness: both have resolved and the guest's vote has survived the
\* reset, which wiped a card of the host.
VoteSurvivedReset ==
    /\ RaceOver
    /\ parts["G"].selectedCard = toggle.x
    /\ selectedCard[hostView] # NoCard
    /\ parts["H"].selectedCard = NoCard

\* ---------------------------------------------------------- convergence
\* The cards of a participant list.
CardsOf(docs) == [p \in Pids |-> docs[p].selectedCard]

\* The open page of view v shows what the store holds: the status, the
\* participants and their cards, the own card, and hence the tally.
ShowsStore(v) ==
    /\ roomData[v].status = room.status
    /\ \A p \in Pids : participants[v][p].exists = parts[p].exists
    /\ CardsOf(participants[v]) = CardsOf(parts)
    /\ selectedCard[v] = parts[participantId(v)].selectedCard
    /\ tallyVotes(<<participants[v]["H"].selectedCard,
                    participants[v]["G"].selectedCard>>)
          = tallyVotes(<<parts["H"].selectedCard, parts["G"].selectedCard>>)

FailedVoteLeavesState ==
    [][\A v \in Views :
          CardSelectFail(v) =>
             /\ selectedCard'[v] = selectedCard[v]
             /\ alerts'[v] = "voteFailed"
             /\ parts' = parts
             /\ room' = room
             /\ ~isSubmitting'[v]
             /\ votePc'[v] = IdleVote
             /\ (isVoting(v) => CardSelectGuard(v)')]_vars

\* C29 witness: after a failed write was surfaced, a later selectCard of
\* the same view has been accepted and is in flight.
AcceptedAfterFailure ==
    \E v \in Views :
        /\ alerts[v] = "voteFailed"
        /\ mounted[v]
        /\ isSubmitting[v]
        /\ votePc[v].st = "issued"

\* ----------------------------------------------------- concurrent votes
\* C30: the write of a selectCard changes the selectedCard of the caller's
\* own record and nothing else in the store: not the room, not the record's
\* name or presence, not another participant's record; the other steps of
\* selectCard change nothing in the store.  Hence a vote that the store has
\* applied is held by the store until its continuation runs, whatever the
\* other participant's selectCard does meanwhile.
OwnRecordOnly ==
    /\ [](\A v \in Views :
            votePc[v].st = "acked" =>
               parts[participantId(v)].selectedCard = votePc[v].card)
    /\ [][\A v \in Views :
            /\ CardSelectCommit(v) =>
                  /\ room' = room
                  /\ \A p \in Pids \ {participantId(v)} : parts'[p] = parts[p]
                  /\ parts'[participantId(v)] =
                        [parts[participantId(v)] EXCEPT
                            !.selectedCard = votePc[v].card]
            /\ ((\E value \in Votes : handleCardSelect(v, value))
                \/ CardSelectDone(v) \/ CardSelectFail(v))
                  => (room' = room /\ parts' = parts)]_vars

\* C30 witness: the writes of host and guest were in flight together and
\* the store has applied both.
BothVotesStored ==
    /\ votePc[hostView].st = "acked"
    /\ votePc[guestView].st = "acked"
    /\ parts["H"].selectedCard # NoCard
    /\ parts["G"].selectedCard # NoCard

\* ------------------------------------------------------ ranks of the cards
\* C39: the ranks of the seven cards are the distinct values 1..7, of two
\* cards with equal counts the one of smaller value has the smaller rank,
\* and at most three cards carry a crown or medal.
RankPermutation ==
    tallyPc = "rendered" =>
       /\ {rankMap[v] : v \in CARD_VALUES} = 1..MaxCard
       /\ \A a, b \in CARD_VALUES :
             (counts[a] = counts[b] /\ a < b) => rankMap[a] < rankMap[b]
       /\ \A a, b \in CARD_VALUES : counts[a] > counts[b] => rankMap[a] < rankMap[b]
       /\ Cardinality({v \in CARD_VALUES : CrownShown(v)}) <= 3

\* C39 witness: three cards with one vote each have been ranked; all three
\* carry a medal, in the order of their values.
ThreeWayTie ==
    /\ tallyPc = "rendered"
    /\ Cardinality({v \in CARD_VALUES : counts[v] = 1}) = 3
    /\ Cardinality({v \in CARD_VALUES : CrownShown(v)}) = 3
    /\ counts[7] = 1 /\ rankMap[7] = 3

\* ------------------------------------------------------ participant panel
\* C33: the participant count and the not-yet-voted count of a view count
\* exactly the entries of its list that are effectively online.
CountsUseEffectivePresence ==
    \A v \in Views :
       mounted[v] =>
          /\ participantCount(v) =
                Cardinality({p \in Pids : /\ participants[v][p].exists
                                          /\ participants[v][p].online})
          /\ notVotedCount(v) =
                Cardinality({p \in Pids :
                                /\ participants[v][p].exists
                                /\ participants[v][p].online
                                /\ participants[v][p].selectedCard = NoCard})

\* ---------------------------------------------------- votes of the absent
\* C38: the counts on a page count every entry of its participant list,
\* whether shown online or offline, so an entry's card has a positive count
\* and a rank; and a stored vote goes away only when a resetRound batch
\* clears it.
OfflineVoteCounted ==
    /\ [](\A v \in Views :
            mounted[v] =>
               /\ \A c \in CARD_VALUES :
                     countsOf(v)[c] =
                        Cardinality({p \in Pids :
                                        /\ participants[v][p].exists
                                        /\ participants[v][p].selectedCard = c})
               /\ \A p \in Pids :
                     (participants[v][p].exists
                      /\ participants[v][p].selectedCard # NoCard)
                        => rankMapOf(v)[participants[v][p].selectedCard]
                              <= Cardinality({c \in CARD_VALUES : countsOf(v)[c] > 0}))
    /\ [][\A p \in Pids :
            (parts[p].selectedCard # NoCard /\ parts'[p].selectedCard = NoCard)
               => \E v \in Views : NextRoundCommit(v)]_vars

\* C38 witness: the guest has left, the host's page shows the
\* guest offline, and the guest's card, which nobody else chose, is
\* counted and ranked first.
StaleVoteCounted ==
    \E c \in Votes :
       /\ ~mounted[guestView]
       /\ participants[hostView]["G"].exists
       /\ ~participants[hostView]["G"].online
       /\ participants[hostView]["G"].selectedCard = c
       /\ participants[hostView]["H"].selectedCard # c
       /\ countsOf(hostView)[c] = 1
       /\ rankMapOf(hostView)[c] = 1

\* ---------------------------------------------------------------- outage
\* C31: a heartbeat write that the store rejects changes nothing but the
\* write's own completion: nothing is shown to the user, the page stays and
\* the timer keeps its schedule; and once the store accepts writes again,
\* each running participant's record is eventually online with a fresh
\* lastSeenAt.
HeartbeatSurvives ==
    /\ [][\A v \in Views :
            OnlineStatusFail(v) =>
               /\ alerts' = alerts /\ mounted' = mounted
               /\ parts' = parts /\ beatAt' = beatAt]_vars
    /\ \A v \in {hostView, guestView} :
          (storeUp /\ now < MaxTime)
             ~> (/\ parts[participantId(v)].online
                 /\ parts[participantId(v)].lastSeenAt = now)

\* C31 witness: two heartbeats of the guest have failed (its record still
\* carries the time of the join) and the third has been sent.
BeatsThroughOutage ==
    /\ ~storeUp
    /\ now >= 2
    /\ parts["G"].lastSeenAt = 0
    /\ beatPc[guestView].st = "pending"
    /\ beatAt[guestView] = now
    /\ alerts[guestView] = ""

\* ------------------------------------------------------------ visibility
\* C32: a visibility change of a view sends, in the same step and hence as
\* the client's next write, online=false when the view became hidden and
\* online=true when it became visible; the store applies the write with
\* the flag sent and its own clock as lastSeenAt.
VisibilityHooks ==
    /\ [][\A v \in Views :
            (hidden'[v] # hidden[v]) =>
               beatPc'[v] = [st |-> "pending", online |-> ~hidden'[v]]]_vars
    /\ [][\A v \in Views :
            (OnlineStatusCommit(v) /\ parts[participantId(v)].exists) =>
               /\ parts'[participantId(v)].online = beatPc[v].online
               /\ parts'[participantId(v)].lastSeenAt = now]_vars

\* C32 witness: the guest's tab was hidden and is visible again; the store
\* still holds the online=false of the hiding, and the online=true of the
\* return is on its way, ahead of the next heartbeat.
BackOnline ==
    /\ ~hidden[guestView]
    /\ ~parts["G"].online
    /\ beatPc[guestView] = [st |-> "pending", online |-> TRUE]
    /\ beatAt[guestView] < now

\* C34: while the tab of a view is hidden, no write of its client sets the
\* stored online flag of its participant to true.
HiddenStaysOffline ==
    [][\A v \in Views :
          (hidden[v] /\ hidden'[v] /\ OnlineStatusCommit(v))
             => ~parts'[participantId(v)].online]_vars

\* ---------------------------------------------------- join keeps the vote
\* C35: the write of a join never turns a stored card of the caller's
\* record into no card, whatever other pages of the same participant do
\* between the join's read and its write.
JoinKeepsVote ==
    [][\A v \in Views :
          (checkAndAddWrite(v) /\ parts[participantId(v)].selectedCard # NoCard)
             => parts'[participantId(v)].selectedCard # NoCard]_vars

\* ---------------------------------------------------------- late creation
\* C36: whenever the store holds the room document, a client whose
\* participant identifier is the room's hostId (the one that issued the
\* creation) holds that hostId in its local host store.
RecognisedHost ==
    room.status # "absent" =>
       \E v \in Views : /\ participantId(v) = room.hostId
                        /\ hostStore[v] = room.hostId

\* ------------------------------------------------------- records at entry
\* C37: every stored participant record has a name, a card that is none or
\* one of 1..7, and an online flag; a presence update leaves the set of
\* records as it is, and changes nothing at all when its record does not
\* exist; no step removes a record.
WellFormedRecords ==
    /\ [](\A p \in Pids :
            parts[p].exists =>
               /\ parts[p].name # ""
               /\ parts[p].selectedCard \in {NoCard} \cup CARD_VALUES
               /\ parts[p].online \in BOOLEAN)
    /\ [][\A v \in Views :
            OnlineStatusCommit(v) =>
               /\ \A p \in Pids : parts'[p].exists = parts[p].exists
               /\ ~parts[participantId(v)].exists => parts' = parts]_vars
    /\ [][\A p \in Pids : parts[p].exists => parts'[p].exists]_vars

\* C37 witness: the store has rejected a presence update of the guest sent
\* before the join created its record (the timer has fired, nothing is
\* pending, no record exists); the join is still to write.
EarlyBeatRejected ==
    /\ ~parts["G"].exists
    /\ beatAt[guestView] > 0
    /\ beatPc[guestView].st = "idle"
    /\ joinPc[guestView] = "create"

====
